---- MODULE Spec2Model ----
(***************************************************************************)
(* Active task slot manager (model/active_task_slot.go).                   *)
(*                                                                         *)
(* A bounded store of task slots.  Every request of a user is mapped to a  *)
(* slot by a SimHash fingerprint of its text: a slot of the same user      *)
(* whose fingerprint is within SimHashThreshold bits is touched, otherwise *)
(* a slot is allocated, or reused under the per-user cap and then the      *)
(* global cap.                                                             *)
(*                                                                         *)
(* Slot positions are the Go indices 0 .. len(slots)-1; position idx is    *)
(* element idx+1 of the sequence slots.                                    *)
(*                                                                         *)
(* The capacities, the fingerprint width and the thresholds are scaled     *)
(* down from the source values (named at each definition) so that the      *)
(* state space is finite and small; every property is stated over the      *)
(* names, never over the numbers.                                          *)
(***************************************************************************)
EXTENDS Integers, Sequences, FiniteSets, TLC

\* ------------------------------------------------------------ bounds ----

\* Global slot cap (source: MaxGlobalSlots = 1000), scaled and kept fixed.
MaxGlobalSlots == 3

\* Per-user slot cap (source: MaxUserSlots = 50).
MaxUserSlots == 2

\* Width of a fingerprint in bits (source: uint64, 64 bits).
HashBits == 3

\* Hamming distance up to which two fingerprints are the same task
\* (source: SimHashThreshold = 5).
SimHashThreshold == 1

\* The clock of the store runs from 0 to MaxTime seconds.
MaxTime == 1

\* -------------------------------------------------------- input sets ----

\* User ids RecordTask is called with.
Users == {1, 2, 3}

\* Display names.
Names == {"n1", "n2"}

\* Texts are sequences of characters; " " is the only whitespace.
Chars == {"a", "b"}

\* The tokens strings.Fields can yield from the texts below.
Tokens == {<<"a">>, <<"b">>}

\* Request texts handed to RecordTask.
Texts == {<<>>, <<"a">>, <<"b">>}

Fingerprints == 0 .. (2 ^ HashBits - 1)

AllOnes == 2 ^ HashBits - 1

VARIABLES
  simhashTokenSalt,  \* the process salt, held as the token hash it induces
  slots,             \* m.slots: sequence of TaskSlot records
  userSlotIdx,       \* m.userSlotIdx: user id -> sequence of positions
  lruOrder,          \* m.lruOrder: positions, most recently used last
  clock,             \* what time.Now().Unix() returns
  lastCall,          \* history: the last RecordTask call, its branch and the
                     \* former owner of the slot it wrote
  mu,                \* m.mu: the writer holding it and the set of readers
  pc,                \* where each goroutine stands
  call,              \* the locals of each caller's RecordTask in progress
  scan,              \* the locals of scanAndSaveHighActiveUsers
  scanQualified,     \* history: the users over the threshold at the cycle's read
  dbLog,             \* the DB.Create calls of the current scan cycle
  reply,             \* what the reader's call in progress has computed
  sent,              \* history: the RecordTask calls of a scenario run
  twin,              \* the manager of a second run of the same calls under
                     \* other display names
  usingSQLite,       \* common.UsingSQLite
  checkins,          \* the rows of the table checkins
  userQuota,         \* users.quota of each user
  awards,            \* history: the quota increases made for each (user, date)
  today,             \* the calendar day time.Now() falls on
  req,               \* the locals of each check-in request in progress
  ticker,            \* the time.Ticker of StartHighActiveTaskScanner
  cycles,            \* history: the scan cycles begun so far
  hourlyOnce,        \* userCallHourlyOnce has run initUserCallHourlyWriter
  hourlyMu,          \* userCallHourlyMu: the goroutine holding it
  hourlyBuffer,      \* userCallHourlyBuffer: key -> aggregate
  hourlyCall,        \* the locals of each RecordUserCallHourlyEventAsync
  hourlyFlush,       \* the locals of each flushUserCallHourlyBuffer
  hourlyDB,          \* the batches handed to the upsert, in order
  hourlyLog          \* history: how often each event was recorded

storeVars == <<slots, userSlotIdx, lruOrder>>

procVars == <<mu, pc, call, scan, scanQualified, dbLog>>

histVars == <<reply, sent, twin>>

checkinVars == <<usingSQLite, checkins, userQuota, awards, today, req>>

tickerVars == <<ticker, cycles>>

hourlyVars == <<hourlyOnce, hourlyMu, hourlyBuffer, hourlyCall, hourlyFlush,
                hourlyDB, hourlyLog>>

vars == <<simhashTokenSalt, slots, userSlotIdx, lruOrder, clock, lastCall,
          mu, pc, call, scan, scanQualified, dbLog, reply, sent, twin,
          usingSQLite, checkins, userQuota, awards, today, req,
          ticker, cycles, hourlyOnce, hourlyMu, hourlyBuffer, hourlyCall,
          hourlyFlush, hourlyDB, hourlyLog>>

\* ------------------------------------------------------- fingerprint ----

\* Bit i of h: (h>>i)&1.
Bit(h, i) == (h \div (2 ^ i)) % 2

RECURSIVE FieldsFrom(_, _, _)
\* strings.Fields: the maximal runs of non-space characters, in order.
FieldsFrom(data, i, cur) ==
  IF i > Len(data)
    THEN IF cur = <<>> THEN <<>> ELSE <<cur>>
    ELSE IF data[i] = " "
      THEN (IF cur = <<>> THEN <<>> ELSE <<cur>>) \o FieldsFrom(data, i + 1, <<>>)
      ELSE FieldsFrom(data, i + 1, Append(cur, data[i]))

Fields(data) == FieldsFrom(data, 1, <<>>)

\* tokenHash64: the first 8 bytes of SHA-1(salt || token), little endian.
\* For a fixed salt this is a fixed function of the token; the salt is held
\* as that function.
tokenHash64(token) == simhashTokenSalt[token]

RECURSIVE Votes(_, _, _)
\* v[i] after the tokens k .. Len(tokens): +1 for a set bit, -1 for a clear one.
Votes(tokens, k, i) ==
  IF k > Len(tokens) THEN 0
  ELSE (IF Bit(tokenHash64(tokens[k]), i) = 1 THEN 1 ELSE -1) + Votes(tokens, k + 1, i)

RECURSIVE BitsToInt(_, _)
\* The number whose bit j (i <= j < HashBits) is b[j].
BitsToInt(b, i) ==
  IF i >= HashBits THEN 0 ELSE b[i] * (2 ^ i) + BitsToInt(b, i + 1)

\* Mutant: a bit with as many votes for as against is left clear.
simhash64TiesClear(data) ==
  LET tokens == Fields(data)
  IN IF Len(tokens) = 0 THEN 0
     ELSE BitsToInt([i \in 0 .. HashBits - 1 |->
                       IF Votes(tokens, 1, i) > 0 THEN 1 ELSE 0], 0)

\* Mutant: a text without tokens gets every bit, as the votes of no token
\* would give it.
simhash64NoEarlyReturn(data) ==
  BitsToInt([i \in 0 .. HashBits - 1 |->
               IF Votes(Fields(data), 1, i) >= 0 THEN 1 ELSE 0], 0)

simhash64(data) ==
  LET tokens == Fields(data)
  IN IF Len(tokens) = 0 THEN 0
     ELSE BitsToInt([i \in 0 .. HashBits - 1 |->
                       IF Votes(tokens, 1, i) >= 0 THEN 1 ELSE 0], 0)

\* bits.OnesCount64(a ^ b)
hamming64(a, b) == Cardinality({i \in 0 .. HashBits - 1 : Bit(a, i) # Bit(b, i)})

\* ------------------------------------------------------------- store ----

\* The allocated positions of a slot sequence.
Positions(s) == 0 .. Len(s) - 1

\* The manager's three fields as one value.
Manager == [slots |-> slots, userSlotIdx |-> userSlotIdx, lruOrder |-> lruOrder]

\* m.userSlotIdx[userID]: a missing key reads as the empty list.
UserSlots(m, userID) ==
  IF userID \in DOMAIN m.userSlotIdx THEN m.userSlotIdx[userID] ELSE <<>>

\* m.slots[idx]
SlotAt(m, idx) == m.slots[idx + 1]

\* append(s[:i], s[i+1:]...) for the 1-based index i.
RemoveAt(s, i) == SubSeq(s, 1, i - 1) \o SubSeq(s, i + 1, Len(s))

\* The first 1-based index of v in s, 0 when absent.
IndexOf(s, v) ==
  IF \E i \in 1 .. Len(s) : s[i] = v
    THEN CHOOSE i \in 1 .. Len(s) : s[i] = v /\ \A j \in 1 .. i - 1 : s[j] # v
    ELSE 0

\* m.userSlotIdx[userID] = list, creating the key when needed.
SetUserSlots(idxMap, userID, list) ==
  [u \in DOMAIN idxMap \cup {userID} |-> IF u = userID THEN list ELSE idxMap[u]]

\* Mutant: the touched position keeps its place in the recency list.
moveToLRUEndStale(m, idx) ==
  IF IndexOf(m.lruOrder, idx) = 0
    THEN [m EXCEPT !.lruOrder = Append(m.lruOrder, idx)]
    ELSE m

moveToLRUEnd(m, idx) ==
  LET i == IndexOf(m.lruOrder, idx)
      removed == IF i = 0 THEN m.lruOrder ELSE RemoveAt(m.lruOrder, i)
  IN [m EXCEPT !.lruOrder = Append(removed, idx)]

\* Mutant: a list that has become empty keeps its key.
removeFromUserSlotIdxNoDelete(m, userID, idx) ==
  LET list == UserSlots(m, userID)
      i == IndexOf(list, idx)
  IN [m EXCEPT !.userSlotIdx =
        IF i = 0 THEN m.userSlotIdx
        ELSE SetUserSlots(m.userSlotIdx, userID, RemoveAt(list, i))]

\* Mutant: the position stays in the former owner's list.
removeFromUserSlotIdxKept(m, userID, idx) == m

removeFromUserSlotIdx(m, userID, idx) ==
  LET list == UserSlots(m, userID)
      i == IndexOf(list, idx)
      afterLoop == IF i = 0 THEN m.userSlotIdx
                   ELSE SetUserSlots(m.userSlotIdx, userID, RemoveAt(list, i))
      now == IF userID \in DOMAIN afterLoop THEN afterLoop[userID] ELSE <<>>
  IN [m EXCEPT !.userSlotIdx =
        IF Len(now) = 0
          THEN [u \in DOMAIN afterLoop \ {userID} |-> afterLoop[u]]
          ELSE afterLoop]

RECURSIVE OldestFromTiesLast(_, _, _, _)
\* Mutant: among equal timestamps the later listed slot is taken.
OldestFromTiesLast(m, userSlots, k, oldestIdx) ==
  IF k > Len(userSlots) THEN oldestIdx
  ELSE IF SlotAt(m, userSlots[k]).UpdatedAt <= SlotAt(m, oldestIdx).UpdatedAt
    THEN OldestFromTiesLast(m, userSlots, k + 1, userSlots[k])
    ELSE OldestFromTiesLast(m, userSlots, k + 1, oldestIdx)

RECURSIVE OldestFrom(_, _, _, _)
\* The loop of findOldestUserSlot from the 1-based index k on.
OldestFrom(m, userSlots, k, oldestIdx) ==
  IF k > Len(userSlots) THEN oldestIdx
  ELSE IF SlotAt(m, userSlots[k]).UpdatedAt < SlotAt(m, oldestIdx).UpdatedAt
    THEN OldestFrom(m, userSlots, k + 1, userSlots[k])
    ELSE OldestFrom(m, userSlots, k + 1, oldestIdx)

\* Mutant: the first listed slot is taken whatever its timestamp.
findOldestUserSlotFirst(m, userID) ==
  IF Len(UserSlots(m, userID)) = 0 THEN -1 ELSE UserSlots(m, userID)[1]

findOldestUserSlot(m, userID) ==
  LET userSlots == UserSlots(m, userID)
  IN IF Len(userSlots) = 0 THEN -1
     ELSE OldestFrom(m, userSlots, 2, userSlots[1])

\* The membership part of reuseSlot.
reuseSlotIndex(m, idx, newUserID) ==
  LET oldUserID == SlotAt(m, idx).UserID
  IN IF oldUserID # newUserID
       THEN LET r == removeFromUserSlotIdx(m, oldUserID, idx)
            IN [r EXCEPT !.userSlotIdx =
                  SetUserSlots(r.userSlotIdx, newUserID,
                               Append(UserSlots(r, newUserID), idx))]
       ELSE m

\* Mutant: the reused slot keeps its old fingerprint.
reuseSlotDataStale(m, idx, newUserID, username, now, newHash) ==
  [m EXCEPT !.slots[idx + 1] =
     [UserID |-> newUserID, Username |-> username,
      UpdatedAt |-> now, SimHash |-> @.SimHash]]

\* The overwrite of the slot's fields in reuseSlot.
reuseSlotData(m, idx, newUserID, username, now, newHash) ==
  [m EXCEPT !.slots[idx + 1] =
     [UserID |-> newUserID, Username |-> username,
      UpdatedAt |-> now, SimHash |-> newHash]]

reuseSlot(m, idx, newUserID, username, now, newHash) ==
  moveToLRUEnd(
    reuseSlotData(reuseSlotIndex(m, idx, newUserID),
                  idx, newUserID, username, now, newHash),
    idx)

\* Mutant: the closest slot of the user within the threshold is taken.
findMatchClosest(m, userID, newHash) ==
  LET userSlots == UserSlots(m, userID)
      dist(k) == hamming64(SlotAt(m, userSlots[k]).SimHash, newHash)
  IN IF \E k \in 1 .. Len(userSlots) : dist(k) <= SimHashThreshold
       THEN userSlots[CHOOSE k \in 1 .. Len(userSlots) :
                        /\ \A j \in 1 .. Len(userSlots) : dist(k) <= dist(j)
                        /\ \A j \in 1 .. k - 1 : dist(j) > dist(k)]
       ELSE -1

\* Mutant: no slot ever matches.
findMatchNever(m, userID, newHash) == -1

\* The position of the first slot of the user within the threshold, -1 when
\* there is none (the loop of RecordTask, step 1).
findMatch(m, userID, newHash) ==
  LET userSlots == UserSlots(m, userID)
      hit(k) == hamming64(SlotAt(m, userSlots[k]).SimHash, newHash) <= SimHashThreshold
  IN IF \E k \in 1 .. Len(userSlots) : hit(k)
       THEN userSlots[CHOOSE k \in 1 .. Len(userSlots) :
                        hit(k) /\ \A j \in 1 .. k - 1 : ~hit(j)]
       ELSE -1

\* Mutant: the time of the slot moves only when the display name is the
\* one the slot carries.
touchSlotDataByName(m, idx, username, now, newHash) ==
  [m EXCEPT !.slots[idx + 1] =
     [@ EXCEPT !.UpdatedAt = IF username = m.slots[idx + 1].Username THEN now ELSE @,
               !.SimHash = newHash, !.Username = username]]

\* Mutant: the matched slot keeps the bits of its old fingerprint.
touchSlotDataMerged(m, idx, username, now, newHash) ==
  [m EXCEPT !.slots[idx + 1] =
     [@ EXCEPT !.UpdatedAt = now,
               !.SimHash = BitsToInt([i \in 0 .. HashBits - 1 |->
                                        IF Bit(m.slots[idx + 1].SimHash, i) = 1
                                           \/ Bit(newHash, i) = 1 THEN 1 ELSE 0], 0),
               !.Username = username]]

\* The three assignments to the matched slot.
touchSlotData(m, idx, username, now, newHash) ==
  [m EXCEPT !.slots[idx + 1] =
     [@ EXCEPT !.UpdatedAt = now, !.SimHash = newHash, !.Username = username]]

\* The match branch: touch the slot in place.
touchSlot(m, idx, username, now, newHash) ==
  moveToLRUEnd(touchSlotData(m, idx, username, now, newHash), idx)

\* Mutant: the new cell is not entered in the user's membership list.
allocSlotUnlisted(m, userID, username, now, newHash) ==
  [slots |-> Append(m.slots,
                    [UserID |-> userID, Username |-> username,
                     UpdatedAt |-> now, SimHash |-> newHash]),
   userSlotIdx |-> m.userSlotIdx,
   lruOrder |-> Append(m.lruOrder, Len(m.slots))]

\* Step 3 of RecordTask: a new cell at the end of all three structures.
allocSlot(m, userID, username, now, newHash) ==
  LET newIdx == Len(m.slots)
  IN [slots |-> Append(m.slots,
                       [UserID |-> userID, Username |-> username,
                        UpdatedAt |-> now, SimHash |-> newHash]),
      userSlotIdx |-> SetUserSlots(m.userSlotIdx, userID,
                                   Append(UserSlots(m, userID), newIdx)),
      lruOrder |-> Append(m.lruOrder, newIdx)]

\* Mutant: the per-user cap is tested with > instead of >=.
UserAtCapOffByOne(m, userID) == Len(UserSlots(m, userID)) > MaxUserSlots

\* len(userSlots) >= MaxUserSlots
UserAtCap(m, userID) == Len(UserSlots(m, userID)) >= MaxUserSlots

\* Mutant: the global cap is tested with > instead of >=.
GlobalAtCapOffByOne(m) == Len(m.slots) > MaxGlobalSlots

\* len(m.slots) >= MaxGlobalSlots
GlobalAtCap(m) == Len(m.slots) >= MaxGlobalSlots

\* Mutant: global eviction takes the most recently used position.
GlobalVictimNewest(m) == m.lruOrder[Len(m.lruOrder)]

\* m.lruOrder[0]: the position global eviction reuses.
GlobalVictim(m) == m.lruOrder[1]

\* Mutant: the global cap is tested before the per-user cap.
RecordTaskOutcomeGlobalFirst(m, userID, username, now, newHash) ==
  LET matchIdx == findMatch(m, userID, newHash)
      oldestIdx == findOldestUserSlot(m, userID)
  IN IF matchIdx >= 0
       THEN [branch |-> "match", idx |-> matchIdx,
             m |-> touchSlot(m, matchIdx, username, now, newHash)]
     ELSE IF GlobalAtCap(m) /\ Len(m.lruOrder) > 0
       THEN [branch |-> "evictGlobal", idx |-> GlobalVictim(m),
             m |-> reuseSlot(m, GlobalVictim(m), userID, username, now, newHash)]
     ELSE IF UserAtCap(m, userID) /\ oldestIdx >= 0
       THEN [branch |-> "evictUser", idx |-> oldestIdx,
             m |-> reuseSlot(m, oldestIdx, userID, username, now, newHash)]
     ELSE [branch |-> "alloc", idx |-> Len(m.slots),
           m |-> allocSlot(m, userID, username, now, newHash)]

\* RecordTask under the lock: the branch taken, the position written and the
\* manager afterwards.
RecordTaskOutcome(m, userID, username, now, newHash) ==
  LET matchIdx == findMatch(m, userID, newHash)
      oldestIdx == findOldestUserSlot(m, userID)
  IN IF matchIdx >= 0
       THEN [branch |-> "match", idx |-> matchIdx,
             m |-> touchSlot(m, matchIdx, username, now, newHash)]
     ELSE IF UserAtCap(m, userID) /\ oldestIdx >= 0
       THEN [branch |-> "evictUser", idx |-> oldestIdx,
             m |-> reuseSlot(m, oldestIdx, userID, username, now, newHash)]
     ELSE IF GlobalAtCap(m) /\ Len(m.lruOrder) > 0
       THEN [branch |-> "evictGlobal", idx |-> GlobalVictim(m),
             m |-> reuseSlot(m, GlobalVictim(m), userID, username, now, newHash)]
     ELSE [branch |-> "alloc", idx |-> Len(m.slots),
           m |-> allocSlot(m, userID, username, now, newHash)]

\* The three fields of the manager take the values of the outcome.
ApplyOutcome(out) ==
  /\ slots' = out.m.slots
  /\ userSlotIdx' = out.m.userSlotIdx
  /\ lruOrder' = out.m.lruOrder

\* RecordTask as one step: the whole call runs under m.mu.Lock().
RecordTask(userID, username, data) ==
  \E out \in {RecordTaskOutcome(Manager, userID, username, clock, simhash64(data))} :
     /\ ApplyOutcome(out)
     /\ lastCall' = [userID |-> userID, username |-> username, data |-> data,
                     branch |-> out.branch,
                     prevOwner |-> IF out.branch = "alloc" THEN userID
                                   ELSE slots[out.idx + 1].UserID]
     /\ UNCHANGED <<simhashTokenSalt, checkinVars, tickerVars, hourlyVars, histVars, clock, procVars>>

\* One second passes.
Tick ==
  /\ clock < MaxTime
  /\ clock' = clock + 1
  /\ UNCHANGED <<simhashTokenSalt, checkinVars, tickerVars, hourlyVars, histVars, storeVars, lastCall, procVars>>

\* The salt of the store runs: "a" hashes to 1 and "b" to the number with the
\* low SimHashThreshold + 1 bits set, so that the three texts give
\* fingerprints of which the first two and the last two are within the
\* threshold and the first and the last are not.
StoreSalt ==
  [t \in Tokens |-> IF t = <<"a">> THEN 1 ELSE 2 ^ (SimHashThreshold + 1) - 1]

\* lastCall before the first call.
NoCall == [userID |-> 0, username |-> "", data |-> <<>>,
           branch |-> "none", prevOwner |-> 0]

\* Goroutines: two request handlers, one reporting reader, the scanner.
Callers == {"c1", "c2"}

Readers == {"r1"}

Scanner == "scanner"

Procs == Callers \cup Readers \cup {Scanner}

\* The locals of a caller that is not inside RecordTask.
NoLocals == [userID |-> 0, username |-> "", data |-> <<>>, now |-> 0,
             newHash |-> 0, branch |-> "none", idx |-> -1, pre |-> <<>>]

\* The reader's locals outside a call.
NoReply == [op |-> "none", windowSeconds |-> 0, threshold |-> 0, now |-> 0,
            rank |-> <<>>, result |-> <<>>]

\* The locals of the scanner outside a cycle.
NoScan == [highActiveUsers |-> <<>>, i |-> 0, now |-> 0]

\* The goroutines that serve check-in requests.
CheckinProcs == {"k1", "k2"}

\* The users that check in.
CheckinUsers == {1}

\* Calendar days, as numbers (bound).
MaxDay == 2

Days == 1 .. MaxDay

\* The locals of a goroutine that serves no check-in request.
NoRequest == [pc |-> "idle", kind |-> "none", userId |-> 0, quota |-> 0,
              date |-> 0, created |-> FALSE, gained |-> 0, ok |-> FALSE]

\* An empty table, no quota, no request, the first day.
NoCheckins ==
  /\ checkins = {}
  /\ userQuota = [u \in CheckinUsers |-> 0]
  /\ awards = [k \in CheckinUsers \X Days |-> 0]
  /\ today = 1
  /\ req = [p \in CheckinProcs |-> NoRequest]

\* Seconds between two ticks of the scanner's ticker (source:
\* HighActiveTaskScanInterval = 600).
HighActiveTaskScanInterval == 2

\* StartHighActiveTaskScanner was not called: no ticker, no cycle.
NoTicker ==
  /\ ticker = [started |-> FALSE, at |-> 0, next |-> 0, C |-> 0]
  /\ cycles = 0

\* The goroutines that call RecordUserCallHourlyEventAsync.
HourlyCallers == {"e1", "e2"}

\* The calls of RecordUserCallHourlyEventAsync in a run (bound).
MaxHourlyEvents == 3

\* The goroutines gopool.Go starts for a full buffer, in the order they are
\* taken.
SizeFlushers == <<"g1", "g2", "g3">>

\* The goroutines that flush: the one of the ticker and the started ones.
HourlyFlushers == {"timer"} \cup {SizeFlushers[i] : i \in 1 .. Len(SizeFlushers)}

\* The events that are recorded: user, CreatedAt, IsError.
HourlyEvents ==
  {[UserId |-> 0, CreatedAt |-> 3600, IsError |-> FALSE],
   [UserId |-> 1, CreatedAt |-> 0, IsError |-> FALSE],
   [UserId |-> 1, CreatedAt |-> 1800, IsError |-> FALSE],
   [UserId |-> 1, CreatedAt |-> 3600, IsError |-> TRUE],
   [UserId |-> 1, CreatedAt |-> 5400, IsError |-> FALSE],
   [UserId |-> 2, CreatedAt |-> 7300, IsError |-> FALSE]}

\* The locals of a goroutine outside RecordUserCallHourlyEventAsync.
NoHourlyCall == [pc |-> "idle", event |-> <<>>, key |-> <<>>, bufferSize |-> 0]

\* The locals of a goroutine outside flushUserCallHourlyBuffer.
NoHourlyFlush == [pc |-> "idle", oldBuffer |-> <<>>]

\* The writer before its first call: userCallHourlyBuffer is nil, the mutex
\* is free, nothing was handed to the database.
NoHourly ==
  /\ hourlyOnce = FALSE
  /\ hourlyMu = "none"
  /\ hourlyBuffer = <<>>
  /\ hourlyCall = [p \in HourlyCallers |-> NoHourlyCall]
  /\ hourlyFlush = [f \in HourlyFlushers |-> NoHourlyFlush]
  /\ hourlyDB = <<>>
  /\ hourlyLog = [e \in HourlyEvents |-> 0]

\* No goroutine is inside a call, the lock is free, nothing was written.
InitProcs ==
  /\ mu = [writer |-> "none", readers |-> {}]
  /\ pc = [p \in Procs |-> "idle"]
  /\ call = [p \in Callers |-> NoLocals]
  /\ scan = NoScan
  /\ scanQualified = {}
  /\ dbLog = <<>>
  /\ reply = NoReply
  /\ sent = <<>>
  /\ twin = [slots |-> <<>>, userSlotIdx |-> <<>>, lruOrder |-> <<>>]
  /\ usingSQLite = FALSE
  /\ NoCheckins
  /\ NoTicker
  /\ NoHourly

Init ==
  /\ simhashTokenSalt = StoreSalt
  /\ slots = <<>>
  /\ userSlotIdx = <<>>
  /\ lruOrder = <<>>
  /\ clock = 0
  /\ lastCall = NoCall
  /\ InitProcs

\* The display name of the store runs.
StoreNames == {"n1"}

Next ==
  \/ \E userID \in Users, username \in StoreNames, data \in Texts :
       RecordTask(userID, username, data)
  \/ Tick

Spec == Init /\ [][Next]_vars

\* ------------------------------------------------------ rank reporter ----

\* Default window of GetActiveTaskRank (source: ActiveWindowSeconds = 30).
ActiveWindowSeconds == 1

\* windowSeconds, or the default when it is not positive.
EffectiveWindow(windowSeconds) ==
  IF windowSeconds <= 0 THEN ActiveWindowSeconds ELSE windowSeconds

\* Mutant: a slot touched exactly at the cutoff is left out.
ActivePositionsStrict(m, now, windowSeconds) ==
  {p \in Positions(m.slots) :
     SlotAt(m, p).UpdatedAt > now - EffectiveWindow(windowSeconds)}

\* The positions whose slot was touched at or after the cutoff.
ActivePositions(m, now, windowSeconds) ==
  {p \in Positions(m.slots) :
     SlotAt(m, p).UpdatedAt >= now - EffectiveWindow(windowSeconds)}

\* The map userCounts: one entry per user with an active slot, named after
\* the first active slot of the user in slot order.
RankEntries(m, now, windowSeconds) ==
  LET active == ActivePositions(m, now, windowSeconds)
      of(u) == {p \in active : SlotAt(m, p).UserID = u}
      first(u) == CHOOSE p \in of(u) : \A q \in of(u) : p <= q
  IN {[UserID |-> u, Username |-> SlotAt(m, first(u)).Username,
       ActiveSlots |-> Cardinality(of(u))] :
        u \in {SlotAt(m, p).UserID : p \in active}}

\* The orders in which ranging over a Go map can yield the entries.
Orderings(S) ==
  {f \in [1 .. Cardinality(S) -> S] :
     \A a, b \in 1 .. Cardinality(S) : a # b => f[a] # f[b]}

\* Mutant: the exchange is lost.
SwapNothing(result, i, j) == result

\* result[i], result[j] = result[j], result[i]
Swap(result, i, j) ==
  [result EXCEPT ![i] = result[j], ![j] = result[i]]

RECURSIVE SortFrom(_, _, _)
\* The two nested loops of the sort, from the 1-based indices i and j on.
SortFrom(result, i, j) ==
  IF i > Len(result) - 1 THEN result
  ELSE IF j > Len(result) THEN SortFrom(result, i + 1, i + 2)
  ELSE IF result[j].ActiveSlots > result[i].ActiveSlots
    THEN SortFrom(Swap(result, i, j), i, j + 1)
    ELSE SortFrom(result, i, j + 1)

\* The lists GetActiveTaskRank can return on the manager m at time now.
GetActiveTaskRank(m, now, windowSeconds) ==
  {SortFrom(o, 1, 2) : o \in Orderings(RankEntries(m, now, windowSeconds))}

\* u.ActiveSlots > threshold
OverThresholdStrict(u, threshold) == u.ActiveSlots > threshold

\* u.ActiveSlots >= threshold
OverThreshold(u, threshold) == u.ActiveSlots >= threshold

\* Mutant: the rank is handed on unfiltered.
GetHighActiveUsersAll(rank, threshold) == rank

\* The filter of GetHighActiveUsers over a rank.
GetHighActiveUsers(rank, threshold) ==
  SelectSeq(rank, LAMBDA u : OverThreshold(u, threshold))

\* ------------------------------------------------------ alert scanner ----

\* Alert threshold (source: HighActiveTaskThreshold = 5).
HighActiveTaskThreshold == 1

\* Window of the scan in seconds (source: HighActiveTaskWindowSeconds = 600).
HighActiveTaskWindowSeconds == 1

\* The clock of the scanner runs from 0 to MaxScanTime seconds.
MaxScanTime == 2

\* The administrators.
Admins == {1}

\* The admin lookup of the scanner.
IsAdmin(userID) == userID \in Admins

\* The requests that arrive while the scanner runs: user and text.
ScanCalls == {<<1, <<>>>>, <<2, <<>>>>, <<3, <<>>>>}

\* m.mu.Lock() can be taken.
CanLock == mu.writer = "none" /\ mu.readers = {}

\* Mutant: a reader does not wait for the writer.
CanRLockAlways == TRUE

\* m.mu.RLock() can be taken.
CanRLock == mu.writer = "none"

\* The number of slots of user u touched within the window before now.
ActiveCount(u, now, windowSeconds) ==
  Cardinality({p \in Positions(slots) :
                 /\ slots[p + 1].UserID = u
                 /\ slots[p + 1].UpdatedAt >= now - windowSeconds})

\* The ticker fires: a scan cycle starts.
ScanStart ==
  /\ pc[Scanner] = "idle"
  /\ pc' = [pc EXCEPT ![Scanner] = "rlock"]
  /\ scan' = NoScan
  /\ scanQualified' = {}
  /\ dbLog' = <<>>
  /\ UNCHANGED <<simhashTokenSalt, checkinVars, tickerVars, hourlyVars, histVars, storeVars, clock, lastCall, mu, call>>

\* GetActiveTaskRank: m.mu.RLock().
ScanRLock ==
  /\ pc[Scanner] = "rlock"
  /\ CanRLock
  /\ mu' = [mu EXCEPT !.readers = @ \cup {Scanner}]
  /\ pc' = [pc EXCEPT ![Scanner] = "rank"]
  /\ UNCHANGED <<simhashTokenSalt, checkinVars, tickerVars, hourlyVars, histVars, storeVars, clock, lastCall, call, scan,
                 scanQualified, dbLog>>

\* GetActiveTaskRank: the count and the sort, under the read lock.
ScanRank ==
  /\ pc[Scanner] = "rank"
  /\ \E rank \in GetActiveTaskRank(Manager, clock, HighActiveTaskWindowSeconds) :
       scan' = [scan EXCEPT !.highActiveUsers = rank]
  /\ scanQualified' =
       {u \in Users :
          ActiveCount(u, clock, HighActiveTaskWindowSeconds) >= HighActiveTaskThreshold}
  /\ pc' = [pc EXCEPT ![Scanner] = "runlock"]
  /\ UNCHANGED <<simhashTokenSalt, checkinVars, tickerVars, hourlyVars, histVars, storeVars, clock, lastCall, mu, call, dbLog>>

\* The scanner after entry i of the list: the next entry, or the end.
ScanAdvance(i, list) ==
  IF i < Len(list)
    THEN /\ pc' = [pc EXCEPT ![Scanner] = "isAdmin"]
         /\ scan' = [scan EXCEPT !.i = i + 1]
    ELSE /\ pc' = [pc EXCEPT ![Scanner] = "idle"]
         /\ scan' = NoScan

\* m.mu.RUnlock() left out: the scanner goes on with the read lock held.
ScanRUnlockHeld ==
  /\ pc[Scanner] = "runlock"
  /\ mu' = mu
  /\ LET list == GetHighActiveUsers(scan.highActiveUsers, HighActiveTaskThreshold)
     IN IF Len(list) = 0
          THEN /\ pc' = [pc EXCEPT ![Scanner] = "idle"]
               /\ scan' = NoScan
          ELSE /\ pc' = [pc EXCEPT ![Scanner] = "isAdmin"]
               /\ scan' = [highActiveUsers |-> list, i |-> 1, now |-> clock]
  /\ UNCHANGED <<simhashTokenSalt, checkinVars, tickerVars, hourlyVars, histVars, storeVars, clock, lastCall, call,
                 scanQualified, dbLog>>

\* GetActiveTaskRank returns: m.mu.RUnlock(); then the filter of
\* GetHighActiveUsers, the early return on an empty list and the time of
\* the cycle.
ScanRUnlock ==
  /\ pc[Scanner] = "runlock"
  /\ mu' = [mu EXCEPT !.readers = @ \ {Scanner}]
  /\ LET list == GetHighActiveUsers(scan.highActiveUsers, HighActiveTaskThreshold)
     IN IF Len(list) = 0
          THEN /\ pc' = [pc EXCEPT ![Scanner] = "idle"]
               /\ scan' = NoScan
          ELSE /\ pc' = [pc EXCEPT ![Scanner] = "isAdmin"]
               /\ scan' = [highActiveUsers |-> list, i |-> 1, now |-> clock]
  /\ UNCHANGED <<simhashTokenSalt, checkinVars, tickerVars, hourlyVars, histVars, storeVars, clock, lastCall, call,
                 scanQualified, dbLog>>

\* IsAdmin(u.UserID): an administrator is skipped.
ScanIsAdmin ==
  /\ pc[Scanner] = "isAdmin"
  /\ IF IsAdmin(scan.highActiveUsers[scan.i].UserID)
       THEN ScanAdvance(scan.i, scan.highActiveUsers)
       ELSE /\ pc' = [pc EXCEPT ![Scanner] = "create"]
            /\ scan' = scan
  /\ UNCHANGED <<simhashTokenSalt, checkinVars, tickerVars, hourlyVars, histVars, storeVars, clock, lastCall, mu, call,
                 scanQualified, dbLog>>

\* Mutant: a failed write ends the cycle, the rest of the batch is dropped.
ScanCreateAbort ==
  /\ pc[Scanner] = "create"
  /\ LET u == scan.highActiveUsers[scan.i]
         record == [UserId |-> u.UserID, Username |-> u.Username,
                    ActiveSlots |-> u.ActiveSlots,
                    WindowSecs |-> HighActiveTaskWindowSeconds,
                    CreatedAt |-> scan.now]
     IN \E ok \in BOOLEAN :
          /\ dbLog' = Append(dbLog, [record |-> record, ok |-> ok])
          /\ IF ok
               THEN ScanAdvance(scan.i, scan.highActiveUsers)
               ELSE /\ pc' = [pc EXCEPT ![Scanner] = "idle"]
                    /\ scan' = NoScan
  /\ UNCHANGED <<simhashTokenSalt, checkinVars, tickerVars, hourlyVars, histVars, storeVars, clock, lastCall, mu, call,
                 scanQualified>>

\* DB.Create(&record): the write succeeds or fails, its result is dropped.
ScanCreate ==
  /\ pc[Scanner] = "create"
  /\ LET u == scan.highActiveUsers[scan.i]
         record == [UserId |-> u.UserID, Username |-> u.Username,
                    ActiveSlots |-> u.ActiveSlots,
                    WindowSecs |-> HighActiveTaskWindowSeconds,
                    CreatedAt |-> scan.now]
     IN \E ok \in BOOLEAN : dbLog' = Append(dbLog, [record |-> record, ok |-> ok])
  /\ ScanAdvance(scan.i, scan.highActiveUsers)
  /\ UNCHANGED <<simhashTokenSalt, checkinVars, tickerVars, hourlyVars, histVars, storeVars, clock, lastCall, mu, call,
                 scanQualified>>

\* A request handler runs RecordTask while the scanner is at work; it has to
\* take the write lock.
ScanRecordTask(userID, username, data) ==
  /\ CanLock
  /\ \E out \in {RecordTaskOutcome(Manager, userID, username, clock, simhash64(data))} :
       ApplyOutcome(out)
  /\ UNCHANGED <<simhashTokenSalt, checkinVars, tickerVars, hourlyVars, histVars, clock, lastCall, procVars>>

\* One second passes.
ScanTick ==
  /\ clock < MaxScanTime
  /\ clock' = clock + 1
  /\ UNCHANGED <<simhashTokenSalt, checkinVars, tickerVars, hourlyVars, histVars, storeVars, lastCall, procVars>>

ScanNext ==
  \/ ScanStart
  \/ ScanRLock
  \/ ScanRank
  \/ ScanRUnlock
  \/ ScanIsAdmin
  \/ ScanCreate
  \/ \E c \in ScanCalls, username \in StoreNames : ScanRecordTask(c[1], username, c[2])
  \/ ScanTick

SpecScan == Init /\ [][ScanNext]_vars

\* ----------------------------------------------- RecordTask, statement wise ----

\* The requests of the lock runs: user and text.
LockCalls == {<<1, <<>>>>, <<1, <<"a">>>>, <<1, <<"b">>>>, <<2, <<>>>>, <<2, <<"b">>>>}

\* The manager's fields take the values of m.
SetManager(m) == ApplyOutcome([m |-> m])

\* m.mu.Lock() ... followed by the reads of the time and of the fingerprint.
Lock(c, userID, username, data) ==
  /\ pc[c] = "idle"
  /\ CanLock
  /\ mu' = [mu EXCEPT !.writer = c]
  /\ call' = [call EXCEPT ![c] =
                [userID |-> userID, username |-> username, data |-> data,
                 now |-> clock, newHash |-> simhash64(data),
                 branch |-> "none", idx |-> -1, pre |-> Manager]]
  /\ pc' = [pc EXCEPT ![c] = "find"]
  /\ UNCHANGED <<simhashTokenSalt, checkinVars, tickerVars, hourlyVars, histVars, storeVars, clock, lastCall, scan,
                 scanQualified, dbLog>>

\* The reads of RecordTask: the match loop, the two cap tests and the choice
\* of the position to write.
FindSlot(c) ==
  /\ pc[c] = "find"
  /\ \E out \in {RecordTaskOutcome(Manager, call[c].userID, call[c].username,
                                   call[c].now, call[c].newHash)} :
       call' = [call EXCEPT ![c].branch = out.branch, ![c].idx = out.idx]
  /\ pc' = [pc EXCEPT ![c] = "write1"]
  /\ UNCHANGED <<simhashTokenSalt, checkinVars, tickerVars, hourlyVars, histVars, storeVars, clock, lastCall, mu, scan,
                 scanQualified, dbLog>>

\* The first write: the fields of the matched slot, or the membership lists
\* of reuseSlot, or the append to m.slots.
WriteFirst(c) ==
  /\ pc[c] = "write1"
  /\ LET l == call[c]
     IN CASE l.branch = "match" ->
               /\ SetManager(touchSlotData(Manager, l.idx, l.username, l.now, l.newHash))
               /\ pc' = [pc EXCEPT ![c] = "write3"]
          [] l.branch \in {"evictUser", "evictGlobal"} ->
               /\ SetManager(reuseSlotIndex(Manager, l.idx, l.userID))
               /\ pc' = [pc EXCEPT ![c] = "write2"]
          [] l.branch = "alloc" ->
               /\ slots' = Append(slots, [UserID |-> l.userID, Username |-> l.username,
                                          UpdatedAt |-> l.now, SimHash |-> l.newHash])
               /\ UNCHANGED <<userSlotIdx, lruOrder>>
               /\ pc' = [pc EXCEPT ![c] = "write2"]
  /\ UNCHANGED <<simhashTokenSalt, checkinVars, tickerVars, hourlyVars, histVars, clock, lastCall, mu, call, scan,
                 scanQualified, dbLog>>

\* The second write: the fields of the reused slot, or the append to the
\* user's membership list.
WriteSecond(c) ==
  /\ pc[c] = "write2"
  /\ LET l == call[c]
     IN IF l.branch = "alloc"
          THEN /\ userSlotIdx' = SetUserSlots(userSlotIdx, l.userID,
                                              Append(UserSlots(Manager, l.userID), l.idx))
               /\ UNCHANGED <<slots, lruOrder>>
          ELSE SetManager(reuseSlotData(Manager, l.idx, l.userID, l.username,
                                        l.now, l.newHash))
  /\ pc' = [pc EXCEPT ![c] = "write3"]
  /\ UNCHANGED <<simhashTokenSalt, checkinVars, tickerVars, hourlyVars, histVars, clock, lastCall, mu, call, scan,
                 scanQualified, dbLog>>

\* The last write: the position goes to the end of m.lruOrder.
WriteThird(c) ==
  /\ pc[c] = "write3"
  /\ LET l == call[c]
     IN IF l.branch = "alloc"
          THEN /\ lruOrder' = Append(lruOrder, l.idx)
               /\ UNCHANGED <<slots, userSlotIdx>>
          ELSE SetManager(moveToLRUEnd(Manager, l.idx))
  /\ pc' = [pc EXCEPT ![c] = "unlock"]
  /\ UNCHANGED <<simhashTokenSalt, checkinVars, tickerVars, hourlyVars, histVars, clock, lastCall, mu, call, scan,
                 scanQualified, dbLog>>

\* The deferred m.mu.Unlock() on return.
Unlock(c) ==
  /\ pc[c] = "unlock"
  /\ mu' = [mu EXCEPT !.writer = "none"]
  /\ pc' = [pc EXCEPT ![c] = "idle"]
  /\ call' = [call EXCEPT ![c] = NoLocals]
  /\ UNCHANGED <<simhashTokenSalt, checkinVars, tickerVars, hourlyVars, histVars, storeVars, clock, lastCall, scan,
                 scanQualified, dbLog>>

\* GetActiveTaskRank or GetStats: m.mu.RLock().
RLock(r) ==
  /\ pc[r] = "idle"
  /\ CanRLock
  /\ mu' = [mu EXCEPT !.readers = @ \cup {r}]
  /\ pc' = [pc EXCEPT ![r] = "reading"]
  /\ UNCHANGED <<simhashTokenSalt, checkinVars, tickerVars, hourlyVars, histVars, storeVars, clock, lastCall, call, scan,
                 scanQualified, dbLog>>

\* The reader returns what it has read: the deferred m.mu.RUnlock().
RUnlock(r) ==
  /\ pc[r] = "reading"
  /\ mu' = [mu EXCEPT !.readers = @ \ {r}]
  /\ pc' = [pc EXCEPT ![r] = "idle"]
  /\ UNCHANGED <<simhashTokenSalt, checkinVars, tickerVars, hourlyVars, histVars, storeVars, clock, lastCall, call, scan,
                 scanQualified, dbLog>>

\* One second passes, wherever the goroutines stand.
LockTick ==
  /\ clock < MaxTime
  /\ clock' = clock + 1
  /\ UNCHANGED <<simhashTokenSalt, checkinVars, tickerVars, hourlyVars, histVars, storeVars, lastCall, procVars>>

LockNext ==
  \/ \E c \in Callers, a \in LockCalls, username \in StoreNames :
       Lock(c, a[1], username, a[2])
  \/ \E c \in Callers : FindSlot(c)
  \/ \E c \in Callers : WriteFirst(c)
  \/ \E c \in Callers : WriteSecond(c)
  \/ \E c \in Callers : WriteThird(c)
  \/ \E c \in Callers : Unlock(c)
  \/ \E r \in Readers : RLock(r)
  \/ \E r \in Readers : RUnlock(r)
  \/ LockTick

SpecLock == Init /\ [][LockNext]_vars

\* ------------------------------------------------------ reporting reader ----

\* The windows the reporting layer asks for; 0 is not positive.
RankWindows == {0, 1, 2}

\* The thresholds GetHighActiveUsers is asked for.
RankThresholds == {1, 2}

\* The clock of the reader runs from 0 to MaxRankTime seconds.
MaxRankTime == 2

\* The requests that arrive while the reader runs: user and text.
RankCalls == {<<1, <<>>>>, <<1, <<"b">>>>, <<2, <<>>>>}

\* A request handler runs RecordTask; it has to take the write lock.
RankRecordTask(userID, username, data) ==
  /\ CanLock
  /\ RecordTask(userID, username, data)

\* A call of GetActiveTaskRank (op "rank") or of GetHighActiveUsers (op
\* "high") begins: GetActiveTaskRank takes m.mu.RLock().
RankEnter(r, op, windowSeconds, threshold) ==
  /\ pc[r] = "idle"
  /\ CanRLock
  /\ mu' = [mu EXCEPT !.readers = @ \cup {r}]
  /\ reply' = [NoReply EXCEPT !.op = op, !.windowSeconds = windowSeconds,
                              !.threshold = threshold]
  /\ pc' = [pc EXCEPT ![r] = "count"]
  /\ UNCHANGED <<simhashTokenSalt, checkinVars, tickerVars, hourlyVars, storeVars, clock, lastCall, call, scan,
                 scanQualified, dbLog, sent, twin>>

\* GetActiveTaskRank under the read lock: the time, the count, the sort.
RankCount(r) ==
  /\ pc[r] = "count"
  /\ \E rank \in GetActiveTaskRank(Manager, clock, reply.windowSeconds) :
       reply' = [reply EXCEPT !.now = clock, !.rank = rank]
  /\ pc' = [pc EXCEPT ![r] = "return"]
  /\ UNCHANGED <<simhashTokenSalt, checkinVars, tickerVars, hourlyVars, storeVars, clock, lastCall, mu, call, scan,
                 scanQualified, dbLog, sent, twin>>

\* GetActiveTaskRank returns: the deferred m.mu.RUnlock(). Its caller either
\* has the answer or is GetHighActiveUsers, which runs its loop over the
\* rank it got.
RankReturn(r) ==
  /\ pc[r] = "return"
  /\ mu' = [mu EXCEPT !.readers = @ \ {r}]
  /\ IF reply.op = "high"
       THEN /\ pc' = [pc EXCEPT ![r] = "filtered"]
            /\ reply' = [reply EXCEPT
                           !.result = GetHighActiveUsers(reply.rank, reply.threshold)]
       ELSE /\ pc' = [pc EXCEPT ![r] = "idle"]
            /\ reply' = NoReply
  /\ UNCHANGED <<simhashTokenSalt, checkinVars, tickerVars, hourlyVars, storeVars, clock, lastCall, call, scan,
                 scanQualified, dbLog, sent, twin>>

\* GetHighActiveUsers returns.
HighReturn(r) ==
  /\ pc[r] = "filtered"
  /\ reply' = NoReply
  /\ pc' = [pc EXCEPT ![r] = "idle"]
  /\ UNCHANGED <<simhashTokenSalt, checkinVars, tickerVars, hourlyVars, storeVars, clock, lastCall, mu, call, scan,
                 scanQualified, dbLog, sent, twin>>

\* One second passes.
RankTick ==
  /\ clock < MaxRankTime
  /\ clock' = clock + 1
  /\ UNCHANGED <<simhashTokenSalt, checkinVars, tickerVars, hourlyVars, histVars, storeVars, lastCall, procVars>>

RankNext ==
  \/ \E c \in RankCalls, username \in StoreNames : RankRecordTask(c[1], username, c[2])
  \/ \E r \in Readers, w \in RankWindows : RankEnter(r, "rank", w, 0)
  \/ \E r \in Readers, w \in RankWindows, t \in RankThresholds : RankEnter(r, "high", w, t)
  \/ \E r \in Readers : RankCount(r)
  \/ \E r \in Readers : RankReturn(r)
  \/ \E r \in Readers : HighReturn(r)
  \/ RankTick

SpecRank == Init /\ [][RankNext]_vars

\* --------------------------------------------------- runs under any salt ----

\* The words of the scenario texts, each taken as one character.
HashTokens == {<<"hello">>, <<"world">>, <<"again">>}

\* "hello world"
HelloWorld == <<"hello", " ", "world">>

\* "hello world again"
HelloWorldAgain == <<"hello", " ", "world", " ", "again">>

\* The texts sent in the runs under any salt.
HashTexts == {<<>>, HelloWorld, HelloWorldAgain}

\* The users of the runs under any salt.
HashUsers == {1, 2}

\* The number of calls in a run under any salt.
MaxSent == 2

\* The clock of these runs goes from 0 to MaxHashTime seconds.
MaxHashTime == 2

\* The process starts with any salt: every token hash can come out.
InitHash ==
  /\ simhashTokenSalt \in [HashTokens -> Fingerprints]
  /\ slots = <<>>
  /\ userSlotIdx = <<>>
  /\ lruOrder = <<>>
  /\ clock = 0
  /\ lastCall = NoCall
  /\ InitProcs

\* RecordTask as one step, the call noted in sent.
SentRecordTask(userID, username, data) ==
  /\ \E out \in {RecordTaskOutcome(Manager, userID, username, clock, simhash64(data))} :
       /\ ApplyOutcome(out)
       /\ lastCall' = [userID |-> userID, username |-> username, data |-> data,
                       branch |-> out.branch,
                       prevOwner |-> IF out.branch = "alloc" THEN userID
                                     ELSE slots[out.idx + 1].UserID]
  /\ sent' = Append(sent, [userID |-> userID, data |-> data, now |-> clock])
  /\ UNCHANGED <<simhashTokenSalt, checkinVars, tickerVars, hourlyVars, clock, procVars, reply, twin>>

\* A call of a run under any salt; the run has MaxSent calls at most.
HashRecordTask(userID, username, data) ==
  /\ Len(sent) < MaxSent
  /\ SentRecordTask(userID, username, data)

\* One second passes.
HashTick ==
  /\ clock < MaxHashTime
  /\ clock' = clock + 1
  /\ UNCHANGED <<simhashTokenSalt, checkinVars, tickerVars, hourlyVars, histVars, storeVars, lastCall, procVars>>

HashNext ==
  \/ \E userID \in HashUsers, username \in StoreNames, data \in HashTexts :
       HashRecordTask(userID, username, data)
  \/ HashTick

SpecHash == InitHash /\ [][HashNext]_vars

\* ------------------------------------------------ one user, many payloads ----

\* Payloads without a common word.
BurstTexts == {<<"hello">>, <<"world">>, <<"again">>}

\* One more payload than a user may hold slots (source: 51 payloads).
BurstCount == MaxUserSlots + 1

\* User 1 sends a payload; the run has BurstCount payloads at most.
BurstRecordTask(username, data) ==
  /\ Len(sent) < BurstCount
  /\ SentRecordTask(1, username, data)

\* One second passes.
BurstTick ==
  /\ clock < MaxTime
  /\ clock' = clock + 1
  /\ UNCHANGED <<simhashTokenSalt, checkinVars, tickerVars, hourlyVars, histVars, storeVars, lastCall, procVars>>

BurstNext ==
  \/ \E username \in StoreNames, data \in BurstTexts : BurstRecordTask(username, data)
  \/ BurstTick

SpecBurst == InitHash /\ [][BurstNext]_vars

\* ------------------------------------------- two runs, two sets of names ----

\* Both runs make the same call at the same time, each under a display name
\* of its own.
TwinRecordTask(userID, data, username, other) ==
  /\ \E out \in {RecordTaskOutcome(Manager, userID, username, clock, simhash64(data))},
        out2 \in {RecordTaskOutcome(twin, userID, other, clock, simhash64(data))} :
       /\ ApplyOutcome(out)
       /\ twin' = out2.m
       /\ lastCall' = [userID |-> userID, username |-> username, data |-> data,
                       branch |-> out.branch,
                       prevOwner |-> IF out.branch = "alloc" THEN userID
                                     ELSE slots[out.idx + 1].UserID]
  /\ UNCHANGED <<simhashTokenSalt, checkinVars, tickerVars, hourlyVars, clock, procVars, reply, sent>>

\* One second passes, in both runs.
TwinTick ==
  /\ clock < MaxTime
  /\ clock' = clock + 1
  /\ UNCHANGED <<simhashTokenSalt, checkinVars, tickerVars, hourlyVars, histVars, storeVars, lastCall, procVars>>

TwinNext ==
  \/ \E c \in LockCalls, username \in StoreNames, other \in Names :
       TwinRecordTask(c[1], c[2], username, other)
  \/ TwinTick

SpecTwin == Init /\ [][TwinNext]_vars

\* ------------------------------------------------------ ingestion adapter ----

\* strings.Contains(s, sub), on strings held as sequences of pieces.
Contains(s, sub) ==
  \E i \in 1 .. Len(s) - Len(sub) + 1 : SubSeq(s, i, i + Len(sub) - 1) = sub

\* The test of the request path in RecordActiveTaskSlot.
IsChatRequest(requestPath) ==
  \/ Contains(requestPath, <<"/", "chat", "/", "completions">>)
  \/ Contains(requestPath, <<"/", "v1", "/", "completions">>)
  \/ Contains(requestPath, <<"/", "v1", "/", "responses">>)
  \/ Contains(requestPath, <<"/", "v1", "/", "messages">>)
  \/ (/\ Contains(requestPath, <<"/", "v1beta", "/", "models", "/">>)
      /\ Contains(requestPath, <<"generateContent">>))

\* Request paths: chat and completion endpoints and others.
RequestPaths ==
  {<<"/", "v1", "/", "chat", "/", "completions">>,
   <<"/", "v1", "/", "completions">>,
   <<"/", "v1", "/", "responses">>,
   <<"/", "v1", "/", "messages">>,
   <<"/", "v1beta", "/", "models", "/", "gemini", ":", "generateContent">>,
   <<"/", "v1beta", "/", "models", "/", "gemini", ":", "embedContent">>,
   <<"/", "v1", "/", "images", "/", "generateContent">>,
   <<"/", "v1", "/", "embeddings">>}

\* The user ids the HTTP layer hands over.
AdapterUsers == {-1, 0, 1}

\* What the context holds under key_request_body: nothing, no bytes, bytes.
RequestBodies ==
  {[exists |-> FALSE, bytes |-> <<>>], [exists |-> TRUE, bytes |-> <<>>],
   [exists |-> TRUE, bytes |-> <<"b">>]}

\* The model names of the requests.
ModelNames == {<<>>, <<"a">>}

\* The text handed to RecordTask: the body when there is one with bytes,
\* the model name otherwise.
AdapterData(body, modelName) ==
  LET data == IF body.exists /\ Len(body.bytes) > 0 THEN body.bytes ELSE <<>>
  IN IF data = <<>> THEN modelName ELSE data

\* An adapter that does not look at the user id.
AdapterSkipsAnyUser(isGin, userID, requestPath) ==
  ~isGin \/ ~IsChatRequest(requestPath)

\* The call returns before it reaches the manager.
AdapterSkips(isGin, userID, requestPath) ==
  userID <= 0 \/ ~isGin \/ ~IsChatRequest(requestPath)

\* RecordActiveTaskSlot: the three early returns, then RecordTask.
RecordActiveTaskSlot(isGin, userID, username, requestPath, body, modelName) ==
  /\ IF AdapterSkips(isGin, userID, requestPath)
       THEN /\ UNCHANGED storeVars
            /\ lastCall' = [userID |-> userID, username |-> username, data |-> <<>>,
                            branch |-> "skipped", prevOwner |-> 0,
                            isGin |-> isGin, requestPath |-> requestPath]
       ELSE \E out \in {RecordTaskOutcome(Manager, userID, username, clock,
                                          simhash64(AdapterData(body, modelName)))} :
              /\ ApplyOutcome(out)
              /\ lastCall' = [userID |-> userID, username |-> username,
                              data |-> AdapterData(body, modelName),
                              branch |-> out.branch,
                              prevOwner |-> IF out.branch = "alloc" THEN userID
                                            ELSE slots[out.idx + 1].UserID,
                              isGin |-> isGin, requestPath |-> requestPath]
  /\ UNCHANGED <<simhashTokenSalt, checkinVars, tickerVars, hourlyVars, histVars, clock, procVars>>

AdapterNext ==
  \E isGin \in BOOLEAN, userID \in AdapterUsers, username \in StoreNames,
     requestPath \in RequestPaths, body \in RequestBodies, modelName \in ModelNames :
    RecordActiveTaskSlot(isGin, userID, username, requestPath, body, modelName)

SpecAdapter == Init /\ [][AdapterNext]_vars

\* GetStats: the counts read under the read lock.
GetStats(m, now) ==
  [total_slots |-> Len(m.slots),
   active_slots |-> Cardinality({p \in Positions(m.slots) :
                                   SlotAt(m, p).UpdatedAt >= now - ActiveWindowSeconds}),
   max_global_slots |-> MaxGlobalSlots,
   max_user_slots |-> MaxUserSlots,
   active_users |-> Cardinality(DOMAIN m.userSlotIdx),
   window_seconds |-> ActiveWindowSeconds]

\* ------------------------------------------- calls that wait for mu ----

\* The goroutines that read: the reporting reader and the scanner, whose
\* GetHighActiveUsers is one GetActiveTaskRank call.
WaitReaders == Readers \cup {Scanner}

\* RecordTask calls of the waiting runs: a user id that is not positive, the
\* empty text.
WaitCalls == {<<0, <<>>>>, <<1, <<"b">>>>}

\* In these runs mu.writer is the writer that has passed rw.w and announced
\* itself to the readers; it holds the lock once the readers have left.
\* RecordTask is called: the goroutine stands at m.mu.Lock().
CallLock(c, userID, username, data) ==
  /\ pc[c] = "idle"
  /\ call' = [call EXCEPT ![c] =
                [NoLocals EXCEPT !.userID = userID, !.username = username,
                                 !.data = data]]
  /\ pc' = [pc EXCEPT ![c] = "lock"]
  /\ UNCHANGED <<simhashTokenSalt, checkinVars, tickerVars, hourlyVars, histVars, storeVars, clock, lastCall, mu, scan,
                 scanQualified, dbLog>>

\* m.mu.Lock(), first half: the writer passes the writers' mutex and
\* announces itself; readers that arrive from now on wait.
AnnounceLock(c) ==
  /\ pc[c] = "lock"
  /\ mu.writer = "none"
  /\ mu' = [mu EXCEPT !.writer = c]
  /\ pc' = [pc EXCEPT ![c] = "drain"]
  /\ UNCHANGED <<simhashTokenSalt, checkinVars, tickerVars, hourlyVars, histVars, storeVars, clock, lastCall, call, scan,
                 scanQualified, dbLog>>

\* m.mu.Lock(), second half: the readers that held the lock have left; the
\* time and the fingerprint are read.
DrainLock(c) ==
  /\ pc[c] = "drain"
  /\ mu.readers = {}
  /\ call' = [call EXCEPT ![c].now = clock, ![c].newHash = simhash64(call[c].data)]
  /\ pc' = [pc EXCEPT ![c] = "find"]
  /\ UNCHANGED <<simhashTokenSalt, checkinVars, tickerVars, hourlyVars, histVars, storeVars, clock, lastCall, mu, scan,
                 scanQualified, dbLog>>

\* The goroutines blocked in m.mu.RLock() behind a writer.
BlockedReaders == {r \in WaitReaders : pc[r] = "rlock"}

\* Mutant: the unlock that forgets the blocked readers.
WaitUnlockNoWake(c) ==
  /\ pc[c] = "unlock"
  /\ mu' = [mu EXCEPT !.writer = "none"]
  /\ pc' = [pc EXCEPT ![c] = "idle"]
  /\ call' = [call EXCEPT ![c] = NoLocals]
  /\ UNCHANGED <<simhashTokenSalt, checkinVars, tickerVars, hourlyVars, histVars, storeVars, clock, lastCall, scan,
                 scanQualified, dbLog>>

\* The deferred m.mu.Unlock(): the readers that arrived meanwhile get the
\* lock, then the next writer may announce itself.
WaitUnlock(c) ==
  /\ pc[c] = "unlock"
  /\ mu' = [writer |-> "none", readers |-> BlockedReaders]
  /\ pc' = [p \in Procs |-> IF p = c THEN "idle"
                            ELSE IF p \in BlockedReaders THEN "reading"
                            ELSE pc[p]]
  /\ call' = [call EXCEPT ![c] = NoLocals]
  /\ UNCHANGED <<simhashTokenSalt, checkinVars, tickerVars, hourlyVars, histVars, storeVars, clock, lastCall, scan,
                 scanQualified, dbLog>>

\* GetActiveTaskRank or GetStats is called: m.mu.RLock() is taken at once
\* unless a writer has announced itself.
CallRLock(r) ==
  /\ pc[r] = "idle"
  /\ IF mu.writer = "none"
       THEN /\ mu' = [mu EXCEPT !.readers = @ \cup {r}]
            /\ pc' = [pc EXCEPT ![r] = "reading"]
       ELSE /\ pc' = [pc EXCEPT ![r] = "rlock"]
            /\ UNCHANGED mu
  /\ UNCHANGED <<simhashTokenSalt, checkinVars, tickerVars, hourlyVars, histVars, storeVars, clock, lastCall, call, scan,
                 scanQualified, dbLog>>

\* The steps of a RecordTask call that has been made.
WriterStep(c) ==
  \/ DrainLock(c)
  \/ FindSlot(c)
  \/ WriteFirst(c)
  \/ WriteSecond(c)
  \/ WriteThird(c)
  \/ WaitUnlock(c)

WaitNext ==
  \/ \E c \in Callers, a \in WaitCalls, username \in StoreNames :
       CallLock(c, a[1], username, a[2])
  \/ \E c \in Callers : AnnounceLock(c)
  \/ \E c \in Callers : DrainLock(c)
  \/ \E c \in Callers : FindSlot(c)
  \/ \E c \in Callers : WriteFirst(c)
  \/ \E c \in Callers : WriteSecond(c)
  \/ \E c \in Callers : WriteThird(c)
  \/ \E c \in Callers : WaitUnlock(c)
  \/ \E r \in WaitReaders : CallRLock(r)
  \/ \E r \in WaitReaders : RUnlock(r)
  \/ LockTick

\* A goroutine inside a call keeps running; the writers' mutex serves every
\* writer that keeps waiting for it.
WaitFairness ==
  /\ \A c \in Callers : SF_vars(AnnounceLock(c))
  /\ \A c \in Callers : WF_vars(WriterStep(c))
  /\ \A r \in WaitReaders : WF_vars(RUnlock(r))

SpecWait == Init /\ [][WaitNext]_vars /\ WaitFairness

\* ---------------------------------------------------- daily check-in ----

\* The amounts a check-in can award: setting.CheckinQuota or FixedQuota, or
\* a number between the least and the greatest of the random mode.
CheckinQuotas == {1, 2}

\* The handlers: controller.Checkin, and model.UserCheckin.
CheckinKinds == {"Checkin", "UserCheckin"}

\* The row a request inserts.
Row(r) == [UserId |-> r.userId, CheckinDate |-> r.date, QuotaAwarded |-> r.quota]

\* The rows of a user and a date.
RowsOf(userId, date) ==
  {c \in checkins : c.UserId = userId /\ c.CheckinDate = date}

\* The inserts of transactions that have neither committed nor rolled back.
Uncommitted(p) ==
  {q \in CheckinProcs \ {p} : req[q].pc \in {"txUpdate", "txCommit"}}

\* An insert on the unique index idx_user_checkin_date waits while another
\* transaction holds an uncommitted row of the same user and date.
IndexFree(p, userId, date) ==
  \A q \in Uncommitted(p) : ~(req[q].userId = userId /\ req[q].date = date)

\* The request returns without success; the row it inserted, if any, stays
\* in its locals.
Fails(p, r) ==
  req' = [req EXCEPT ![p] =
            IF r.created THEN [r EXCEPT !.pc = "return", !.ok = FALSE]
            ELSE [NoRequest EXCEPT !.pc = "return"]]

\* A request arrives: the setting is read.
CheckinBegin(p, kind, userId, enabled) ==
  /\ req[p].pc = "idle"
  /\ LET r == [NoRequest EXCEPT !.kind = kind, !.userId = userId]
     IN IF enabled
          THEN req' = [req EXCEPT ![p] = [r EXCEPT !.pc = "check"]]
          ELSE Fails(p, r)
  /\ UNCHANGED <<usingSQLite, checkins, userQuota, awards, today>>
  /\ UNCHANGED <<simhashTokenSalt, storeVars, clock, lastCall, procVars, histVars,
                 tickerVars, hourlyVars>>

\* HasCheckedInToday, then the amount: the count can fail, a row of today
\* ends the request.
HasCheckedInToday(p, err, quota) ==
  /\ req[p].pc = "check"
  /\ IF err \/ RowsOf(req[p].userId, today) # {}
       THEN Fails(p, req[p])
       ELSE req' = [req EXCEPT ![p].quota = quota,
                               ![p].pc = IF req[p].kind = "Checkin" THEN "create"
                                         ELSE "build"]
  /\ UNCHANGED <<usingSQLite, checkins, userQuota, awards, today>>
  /\ UNCHANGED <<simhashTokenSalt, storeVars, clock, lastCall, procVars, histVars,
                 tickerVars, hourlyVars>>

\* UserCheckin builds the row with the date of the moment.
BuildCheckin(p) ==
  /\ req[p].pc = "build"
  /\ req' = [req EXCEPT ![p].date = today,
                        ![p].pc = IF usingSQLite THEN "create" ELSE "txCreate"]
  /\ UNCHANGED <<usingSQLite, checkins, userQuota, awards, today>>
  /\ UNCHANGED <<simhashTokenSalt, storeVars, clock, lastCall, procVars, histVars,
                 tickerVars, hourlyVars>>

\* Mutant: an insert that the unique index does not stop.
InsertFailsNever(err, userId, date) == err

\* DB.Create fails on an error of the database and on a row of the same
\* user and date.
InsertFails(err, userId, date) == err \/ RowsOf(userId, date) # {}

\* DB.Create(checkin) outside a transaction: CreateCheckinRecord, which
\* takes the date of the moment, and userCheckinWithoutTransaction.
CreateCheckinRecord(p, err) ==
  /\ req[p].pc = "create"
  /\ LET r == IF req[p].kind = "Checkin" THEN [req[p] EXCEPT !.date = today]
              ELSE req[p]
     IN /\ IndexFree(p, r.userId, r.date)
        /\ IF InsertFails(err, r.userId, r.date)
             THEN /\ Fails(p, r)
                  /\ UNCHANGED checkins
             ELSE /\ checkins' = checkins \cup {Row(r)}
                  /\ req' = [req EXCEPT ![p] = [r EXCEPT !.created = TRUE,
                                                         !.pc = "increase"]]
  /\ UNCHANGED <<usingSQLite, userQuota, awards, today>>
  /\ UNCHANGED <<simhashTokenSalt, storeVars, clock, lastCall, procVars, histVars,
                 tickerVars, hourlyVars>>

\* IncreaseUserQuota(userId, quota, true): the quota grows, or the call
\* fails and UserCheckin goes on to delete its row.
IncreaseUserQuota(p, err) ==
  /\ req[p].pc = "increase"
  /\ IF err
       THEN /\ IF req[p].kind = "Checkin"
                 THEN Fails(p, req[p])
                 ELSE req' = [req EXCEPT ![p].pc = "delete"]
            /\ UNCHANGED <<userQuota, awards>>
       ELSE /\ userQuota' = [userQuota EXCEPT ![req[p].userId] = @ + req[p].quota]
            /\ awards' = [awards EXCEPT ![<<req[p].userId, req[p].date>>] = @ + 1]
            /\ req' = [req EXCEPT ![p].gained = req[p].quota, ![p].ok = TRUE,
                                  ![p].pc = "return"]
  /\ UNCHANGED <<usingSQLite, checkins, today>>
  /\ UNCHANGED <<simhashTokenSalt, storeVars, clock, lastCall, procVars, histVars,
                 tickerVars, hourlyVars>>

\* DB.Delete(checkin) of userCheckinWithoutTransaction; its result is not
\* looked at.
DeleteCheckin(p, err) ==
  /\ req[p].pc = "delete"
  /\ checkins' = IF err THEN checkins ELSE checkins \ {Row(req[p])}
  /\ Fails(p, req[p])
  /\ UNCHANGED <<usingSQLite, userQuota, awards, today>>
  /\ UNCHANGED <<simhashTokenSalt, storeVars, clock, lastCall, procVars, histVars,
                 tickerVars, hourlyVars>>

\* tx.Create(checkin) inside DB.Transaction: the row is not committed yet.
TxCreate(p, err) ==
  /\ req[p].pc = "txCreate"
  /\ IndexFree(p, req[p].userId, req[p].date)
  /\ IF InsertFails(err, req[p].userId, req[p].date)
       THEN Fails(p, req[p])
       ELSE req' = [req EXCEPT ![p].pc = "txUpdate"]
  /\ UNCHANGED <<usingSQLite, checkins, userQuota, awards, today>>
  /\ UNCHANGED <<simhashTokenSalt, storeVars, clock, lastCall, procVars, histVars,
                 tickerVars, hourlyVars>>

\* tx.Model(&User{}).Update("quota", quota + ?): an error rolls back.
TxUpdate(p, err) ==
  /\ req[p].pc = "txUpdate"
  /\ IF err
       THEN Fails(p, req[p])
       ELSE req' = [req EXCEPT ![p].pc = "txCommit"]
  /\ UNCHANGED <<usingSQLite, checkins, userQuota, awards, today>>
  /\ UNCHANGED <<simhashTokenSalt, storeVars, clock, lastCall, procVars, histVars,
                 tickerVars, hourlyVars>>

\* The commit of DB.Transaction: the row and the quota together, or neither.
TxCommit(p, err) ==
  /\ req[p].pc = "txCommit"
  /\ IF err
       THEN /\ Fails(p, req[p])
            /\ UNCHANGED <<checkins, userQuota, awards>>
       ELSE /\ checkins' = checkins \cup {Row(req[p])}
            /\ userQuota' = [userQuota EXCEPT ![req[p].userId] = @ + req[p].quota]
            /\ awards' = [awards EXCEPT ![<<req[p].userId, req[p].date>>] = @ + 1]
            /\ req' = [req EXCEPT ![p].created = TRUE, ![p].gained = req[p].quota,
                                  ![p].ok = TRUE, ![p].pc = "return"]
  /\ UNCHANGED <<usingSQLite, today>>
  /\ UNCHANGED <<simhashTokenSalt, storeVars, clock, lastCall, procVars, histVars,
                 tickerVars, hourlyVars>>

\* The handler returns.
CheckinReturn(p) ==
  /\ req[p].pc = "return"
  /\ req' = [req EXCEPT ![p] = NoRequest]
  /\ UNCHANGED <<usingSQLite, checkins, userQuota, awards, today>>
  /\ UNCHANGED <<simhashTokenSalt, storeVars, clock, lastCall, procVars, histVars,
                 tickerVars, hourlyVars>>

\* Midnight.
NextDay ==
  /\ today < MaxDay
  /\ today' = today + 1
  /\ UNCHANGED <<usingSQLite, checkins, userQuota, awards, req>>
  /\ UNCHANGED <<simhashTokenSalt, storeVars, clock, lastCall, procVars, histVars,
                 tickerVars, hourlyVars>>

CheckinNext ==
  \/ \E p \in CheckinProcs, kind \in CheckinKinds, userId \in CheckinUsers,
        enabled \in BOOLEAN : CheckinBegin(p, kind, userId, enabled)
  \/ \E p \in CheckinProcs, err \in BOOLEAN, quota \in CheckinQuotas :
       HasCheckedInToday(p, err, quota)
  \/ \E p \in CheckinProcs : BuildCheckin(p)
  \/ \E p \in CheckinProcs, err \in BOOLEAN : CreateCheckinRecord(p, err)
  \/ \E p \in CheckinProcs, err \in BOOLEAN : IncreaseUserQuota(p, err)
  \/ \E p \in CheckinProcs, err \in BOOLEAN : DeleteCheckin(p, err)
  \/ \E p \in CheckinProcs, err \in BOOLEAN : TxCreate(p, err)
  \/ \E p \in CheckinProcs, err \in BOOLEAN : TxUpdate(p, err)
  \/ \E p \in CheckinProcs, err \in BOOLEAN : TxCommit(p, err)
  \/ \E p \in CheckinProcs : CheckinReturn(p)
  \/ NextDay

\* The database is SQLite, or one with transactions.
InitCheckin ==
  /\ simhashTokenSalt = StoreSalt
  /\ slots = <<>>
  /\ userSlotIdx = <<>>
  /\ lruOrder = <<>>
  /\ clock = 0
  /\ lastCall = NoCall
  /\ mu = [writer |-> "none", readers |-> {}]
  /\ pc = [p \in Procs |-> "idle"]
  /\ call = [p \in Callers |-> NoLocals]
  /\ scan = NoScan
  /\ scanQualified = {}
  /\ dbLog = <<>>
  /\ reply = NoReply
  /\ sent = <<>>
  /\ twin = [slots |-> <<>>, userSlotIdx |-> <<>>, lruOrder |-> <<>>]
  /\ usingSQLite \in BOOLEAN
  /\ NoCheckins
  /\ NoTicker
  /\ NoHourly

SpecCheckin == InitCheckin /\ [][CheckinNext]_vars

\* ------------------------------------------- one user, one conversation ----

\* The number of calls of a run (bound).
MaxChain == 4

\* User 1 sends a text; the run has MaxChain calls at most.
DriftRecordTask(username, data) ==
  /\ Len(sent) < MaxChain
  /\ SentRecordTask(1, username, data)

\* One second passes.
DriftTick ==
  /\ clock < MaxTime
  /\ clock' = clock + 1
  /\ UNCHANGED <<simhashTokenSalt, checkinVars, tickerVars, hourlyVars, histVars, storeVars, lastCall, procVars>>

DriftNext ==
  \/ \E username \in StoreNames, data \in Texts : DriftRecordTask(username, data)
  \/ DriftTick

SpecDrift == Init /\ [][DriftNext]_vars

\* ---------------------------------------------------- texts without words ----

\* Texts with no token: empty, one space, two spaces.
BlankTexts == {<<>>, <<" ">>, <<" ", " ">>}

\* The users of these runs.
BlankUsers == {1, 2}

BlankNext ==
  \/ \E userID \in BlankUsers, username \in StoreNames, data \in Texts \cup BlankTexts :
       RecordTask(userID, username, data)
  \/ Tick

SpecBlank == Init /\ [][BlankNext]_vars

\* ------------------------------------------- texts of words, any salt ----

\* Texts of the words a and b: one word, with spaces around it, words in
\* both orders, with one and two spaces between, and words repeated.
TokenTexts ==
  {<<"a">>, <<"b">>, <<" ", "a">>, <<"a", " ">>, <<"a", " ", "a">>,
   <<"a", " ", "b">>, <<"b", " ", "a">>, <<"a", " ", " ", "b">>,
   <<"a", " ", "a", " ", "b">>, <<"a", " ", "b", " ", "a">>,
   <<"b", " ", "a", " ", "a">>, <<"a", " ", "b", " ", "b">>}

\* The store is empty; the salt gives the words any hashes.
InitTokens ==
  /\ simhashTokenSalt \in [Tokens -> Fingerprints]
  /\ slots = <<>>
  /\ userSlotIdx = <<>>
  /\ lruOrder = <<>>
  /\ clock = 0
  /\ lastCall = NoCall
  /\ InitProcs

\* User 1 sends a text of words, the first call of the process.
TokenRecordTask(username, data) ==
  /\ sent = <<>>
  /\ SentRecordTask(1, username, data)

TokenNext ==
  \E username \in StoreNames, data \in TokenTexts : TokenRecordTask(username, data)

SpecTokens == InitTokens /\ [][TokenNext]_vars

\* ------------------------------------------------- the scanner's ticker ----

\* The clock of the ticker runs from 0 to MaxTickerTime seconds (bound).
MaxTickerTime == 5

\* The requests that arrive while the ticker runs: user and text.
TickerCalls == {<<2, <<>>>>, <<3, <<>>>>}

\* Mutant: a ticker whose first tick is due when it is made.
FirstTickAtOnce(at) == at

\* time.NewTicker(d) made at the time at: the first tick is due d later.
FirstTick(at) == at + HighActiveTaskScanInterval

\* The time the next tick is due after one that was due at when and is
\* sent at now: the periods that have passed meanwhile are skipped.
NextTickAfter(when, now) ==
  when + HighActiveTaskScanInterval
           * (1 + ((now - when) \div HighActiveTaskScanInterval))

\* StartHighActiveTaskScanner is called, once: the goroutine makes its
\* ticker and waits at "for range ticker.C".
StartHighActiveTaskScanner ==
  /\ ~ticker.started
  /\ ticker' = [started |-> TRUE, at |-> clock, next |-> FirstTick(clock), C |-> 0]
  /\ UNCHANGED <<simhashTokenSalt, checkinVars, hourlyVars, histVars, storeVars, clock,
                 lastCall, procVars, cycles>>

\* The ticker fires, at the time the tick is due or later: the tick goes
\* into the channel ticker.C, which holds one tick, or is dropped when the
\* channel is full. The scanner goroutine is not touched.
TickerFire ==
  /\ ticker.started
  /\ clock >= ticker.next
  /\ ticker' = [ticker EXCEPT !.C = 1, !.next = NextTickAfter(ticker.next, clock)]
  /\ UNCHANGED <<simhashTokenSalt, checkinVars, hourlyVars, histVars, storeVars, clock,
                 lastCall, procVars, cycles>>

\* "for range ticker.C" receives a tick: the goroutine, which is between two
\* cycles, calls scanAndSaveHighActiveUsers.
TickerReceive ==
  /\ pc[Scanner] = "idle"
  /\ ticker.C = 1
  /\ ticker' = [ticker EXCEPT !.C = 0]
  /\ cycles' = cycles + 1
  /\ pc' = [pc EXCEPT ![Scanner] = "rlock"]
  /\ scan' = NoScan
  /\ scanQualified' = {}
  /\ dbLog' = <<>>
  /\ UNCHANGED <<simhashTokenSalt, checkinVars, hourlyVars, histVars, storeVars, clock,
                 lastCall, mu, call>>

\* One second passes.
TickerTick ==
  /\ clock < MaxTickerTime
  /\ clock' = clock + 1
  /\ UNCHANGED <<simhashTokenSalt, checkinVars, tickerVars, hourlyVars, histVars, storeVars,
                 lastCall, procVars>>

TickerNext ==
  \/ StartHighActiveTaskScanner
  \/ TickerFire
  \/ TickerReceive
  \/ ScanRLock
  \/ ScanRank
  \/ ScanRUnlock
  \/ ScanIsAdmin
  \/ ScanCreate
  \/ \E c \in TickerCalls, username \in StoreNames : ScanRecordTask(c[1], username, c[2])
  \/ TickerTick

SpecTicker == Init /\ [][TickerNext]_vars

\* --------------------------------------------- hourly call statistics ----

\* Entries of the buffer from which a flush is asked for (source:
\* userCallHourlyMaxBufferSize = 1000).
userCallHourlyMaxBufferSize == 2

\* Rows of one Create call (source: batchSize = 100).
batchSize == 2

\* The display name of the events.
HourlyNames == {"n1"}

\* AlignHourStartTs: the start of the hour of createdAt, 0 for a time that
\* is not positive.
AlignHourStartTs(createdAt) ==
  IF createdAt <= 0 THEN 0 ELSE createdAt - (createdAt % 3600)

\* userCallHourlyKey of an event.
HourlyKey(event) == <<AlignHourStartTs(event.CreatedAt), event.UserId>>

\* The keys of the events.
HourlyKeys == {HourlyKey(e) : e \in HourlyEvents}

RECURSIVE SumOf(_, _)
\* The sum of f[x] over the x of S.
SumOf(f, S) ==
  IF S = {} THEN 0
  ELSE LET x == CHOOSE y \in S : TRUE IN f[x] + SumOf(f, S \ {x})

\* The calls of RecordUserCallHourlyEventAsync made so far.
HourlyCallsMade == SumOf(hourlyLog, HourlyEvents)

\* Lines 161 to 170: the aggregate of the key, made if it is not there, takes
\* the name of the event and counts it.
AddToBuffer(buffer, key, event, username) ==
  LET agg == IF key \in DOMAIN buffer THEN buffer[key]
             ELSE [Username |-> "", TotalCalls |-> 0, SuccessCalls |-> 0]
  IN (key :> [Username |-> username,
              TotalCalls |-> agg.TotalCalls + 1,
              SuccessCalls |-> IF event.IsError THEN agg.SuccessCalls
                               ELSE agg.SuccessCalls + 1]) @@ buffer

\* RecordUserCallHourlyEventAsync is called with an event: the writer is
\* initialised by the first call; an event whose hour start is 0 or whose
\* user id is not positive is dropped, another goes on to the mutex.
RecordUserCallHourlyEventAsync(p, event) ==
  /\ hourlyCall[p].pc = "idle"
  /\ HourlyCallsMade < MaxHourlyEvents
  /\ hourlyLog' = [hourlyLog EXCEPT ![event] = @ + 1]
  /\ hourlyOnce' = TRUE
  /\ hourlyBuffer' = IF hourlyOnce THEN hourlyBuffer ELSE <<>>
  /\ LET hourStart == AlignHourStartTs(event.CreatedAt)
     IN IF hourStart = 0 \/ event.UserId <= 0
          THEN hourlyCall' = hourlyCall
          ELSE hourlyCall' = [hourlyCall EXCEPT ![p] =
                                [pc |-> "lock", event |-> event,
                                 key |-> <<hourStart, event.UserId>>,
                                 bufferSize |-> 0]]
  /\ UNCHANGED <<simhashTokenSalt, checkinVars, tickerVars, histVars, storeVars, clock,
                 lastCall, procVars, hourlyMu, hourlyFlush, hourlyDB>>

\* userCallHourlyMu.Lock() of the call.
HourlyLock(p) ==
  /\ hourlyCall[p].pc = "lock"
  /\ hourlyMu = "none"
  /\ hourlyMu' = p
  /\ hourlyCall' = [hourlyCall EXCEPT ![p].pc = "add"]
  /\ UNCHANGED <<simhashTokenSalt, checkinVars, tickerVars, histVars, storeVars, clock,
                 lastCall, procVars, hourlyOnce, hourlyBuffer, hourlyFlush, hourlyDB,
                 hourlyLog>>

\* Lines 161 to 172: the event is counted under the mutex, the size of the
\* buffer is read and the mutex is released.
HourlyAdd(p, username) ==
  /\ hourlyCall[p].pc = "add"
  /\ hourlyBuffer' = AddToBuffer(hourlyBuffer, hourlyCall[p].key,
                                 hourlyCall[p].event, username)
  /\ hourlyMu' = "none"
  /\ hourlyCall' = [hourlyCall EXCEPT
                      ![p].bufferSize = Cardinality(DOMAIN hourlyBuffer'),
                      ![p].pc = "sized"]
  /\ UNCHANGED <<simhashTokenSalt, checkinVars, tickerVars, histVars, storeVars, clock,
                 lastCall, procVars, hourlyOnce, hourlyFlush, hourlyDB, hourlyLog>>

\* The first goroutine of SizeFlushers that is free, 0 if there is none.
FreeFlusher ==
  LET free == {i \in 1 .. Len(SizeFlushers) : hourlyFlush[SizeFlushers[i]].pc = "idle"}
  IN IF free = {} THEN 0 ELSE CHOOSE i \in free : \A j \in free : i <= j

\* Lines 175 to 179: a full buffer has gopool.Go start a goroutine that
\* flushes; the call returns.
HourlySized(p) ==
  /\ hourlyCall[p].pc = "sized"
  /\ IF hourlyCall[p].bufferSize >= userCallHourlyMaxBufferSize
       THEN /\ FreeFlusher # 0
            /\ hourlyFlush' = [hourlyFlush EXCEPT
                                 ![SizeFlushers[FreeFlusher]].pc = "lock"]
       ELSE hourlyFlush' = hourlyFlush
  /\ hourlyCall' = [hourlyCall EXCEPT ![p] = NoHourlyCall]
  /\ UNCHANGED <<simhashTokenSalt, checkinVars, tickerVars, histVars, storeVars, clock,
                 lastCall, procVars, hourlyOnce, hourlyMu, hourlyBuffer, hourlyDB,
                 hourlyLog>>

\* The ticker of initUserCallHourlyWriter fires: its goroutine calls
\* flushUserCallHourlyBuffer(false).
FlushTick ==
  /\ hourlyOnce
  /\ hourlyFlush["timer"].pc = "idle"
  /\ hourlyFlush' = [hourlyFlush EXCEPT !["timer"].pc = "lock"]
  /\ UNCHANGED <<simhashTokenSalt, checkinVars, tickerVars, histVars, storeVars, clock,
                 lastCall, procVars, hourlyOnce, hourlyMu, hourlyBuffer, hourlyCall,
                 hourlyDB, hourlyLog>>

\* userCallHourlyMu.Lock() of the flush.
FlushLock(f) ==
  /\ hourlyFlush[f].pc = "lock"
  /\ hourlyMu = "none"
  /\ hourlyMu' = f
  /\ hourlyFlush' = [hourlyFlush EXCEPT ![f].pc = "swap"]
  /\ UNCHANGED <<simhashTokenSalt, checkinVars, tickerVars, histVars, storeVars, clock,
                 lastCall, procVars, hourlyOnce, hourlyBuffer, hourlyCall, hourlyDB,
                 hourlyLog>>

\* Lines 72 to 80: an empty buffer ends the flush; otherwise the buffer is
\* taken and an empty one put in its place; the mutex is released.
FlushSwap(f) ==
  /\ hourlyFlush[f].pc = "swap"
  /\ hourlyMu' = "none"
  /\ IF Cardinality(DOMAIN hourlyBuffer) = 0
       THEN /\ hourlyFlush' = [hourlyFlush EXCEPT ![f] = NoHourlyFlush]
            /\ hourlyBuffer' = hourlyBuffer
       ELSE /\ hourlyFlush' = [hourlyFlush EXCEPT ![f] =
                                 [pc |-> "upsert", oldBuffer |-> hourlyBuffer]]
            /\ hourlyBuffer' = <<>>
  /\ UNCHANGED <<simhashTokenSalt, checkinVars, tickerVars, histVars, storeVars, clock,
                 lastCall, procVars, hourlyOnce, hourlyCall, hourlyDB, hourlyLog>>

\* The rows of a buffer, in an order of its keys.
HourlyRows(buffer, order) ==
  [i \in 1 .. Len(order) |->
     [HourStartTs |-> order[i][1], UserId |-> order[i][2],
      Username |-> buffer[order[i]].Username,
      TotalCalls |-> buffer[order[i]].TotalCalls,
      SuccessCalls |-> buffer[order[i]].SuccessCalls]]

\* rows[i:end] for every i of the loop: the batches of at most batchSize rows.
HourlyBatches(rows) ==
  [b \in 1 .. ((Len(rows) + batchSize - 1) \div batchSize) |->
     {rows[i] : i \in {j \in 1 .. Len(rows) :
                         (b - 1) * batchSize < j /\ j <= b * batchSize}}]

\* batchUpsertUserCallHourly on the buffer taken: the rows, in the order
\* the map yields them, go to Create in batches; what Create returns is
\* dropped.
FlushUpsert(f) ==
  /\ hourlyFlush[f].pc = "upsert"
  /\ \E order \in Orderings(DOMAIN hourlyFlush[f].oldBuffer) :
       hourlyDB' = hourlyDB \o HourlyBatches(HourlyRows(hourlyFlush[f].oldBuffer, order))
  /\ hourlyFlush' = [hourlyFlush EXCEPT ![f] = NoHourlyFlush]
  /\ UNCHANGED <<simhashTokenSalt, checkinVars, tickerVars, histVars, storeVars, clock,
                 lastCall, procVars, hourlyOnce, hourlyMu, hourlyBuffer, hourlyCall,
                 hourlyLog>>

HourlyNext ==
  \/ \E p \in HourlyCallers, event \in HourlyEvents :
       RecordUserCallHourlyEventAsync(p, event)
  \/ \E p \in HourlyCallers : HourlyLock(p)
  \/ \E p \in HourlyCallers, username \in HourlyNames : HourlyAdd(p, username)
  \/ \E p \in HourlyCallers : HourlySized(p)
  \/ FlushTick
  \/ \E f \in HourlyFlushers : FlushLock(f)
  \/ \E f \in HourlyFlushers : FlushSwap(f)
  \/ \E f \in HourlyFlushers : FlushUpsert(f)

SpecHourly == Init /\ [][HourlyNext]_vars

\* ------------------------------------------------- state functions ----

\* The number of slots of s whose owner field is u.
OwnedCount(s, u) == Cardinality({p \in Positions(s) : s[p + 1].UserID = u})

\* The length of u's membership list in the index idxMap.
ListedCount(idxMap, u) == IF u \in DOMAIN idxMap THEN Len(idxMap[u]) ELSE 0

\* How often position p stands in the list.
Occurrences(list, p) == Cardinality({k \in 1 .. Len(list) : list[k] = p})

\* Some slot u owns is within the threshold of the fingerprint fp.
HasMatch(u, fp) ==
  \E p \in Positions(slots) :
    /\ slots[p + 1].UserID = u
    /\ hamming64(slots[p + 1].SimHash, fp) <= SimHashThreshold

\* The step changes no count: not the total, not any user's.
CountsUnchanged ==
  /\ Len(slots') = Len(slots)
  /\ \A v \in Users :
       /\ OwnedCount(slots', v) = OwnedCount(slots, v)
       /\ ListedCount(userSlotIdx', v) = ListedCount(userSlotIdx, v)

\* The slot a call of (u, n, d) writes at the current time.
WrittenSlot(u, n, d) ==
  [UserID |-> u, Username |-> n, UpdatedAt |-> clock, SimHash |-> simhash64(d)]

\* ------------------------------------------------------------ claims ----

\* Every RecordTask step records its own arguments in lastCall, so a step is
\* RecordTask(u, n, d) only for the u, n, d that lastCall holds after it: the
\* step properties below quantify over exactly those.

\* C1: after any sequence of RecordTask calls the total number of slots is
\* at most MaxGlobalSlots and every user owns at most MaxUserSlots slots
\* (by owner field and by membership list).
C1_CapacityBounds ==
  /\ Len(slots) <= MaxGlobalSlots
  /\ \A u \in Users :
       /\ OwnedCount(slots, u) <= MaxUserSlots
       /\ ListedCount(userSlotIdx, u) <= MaxUserSlots

\* C1 witness: the store is full, some user is at the per-user cap, and the
\* last call was an eviction.
C1_Witness ==
  /\ Len(slots) = MaxGlobalSlots
  /\ \E u \in Users : OwnedCount(slots, u) = MaxUserSlots
  /\ lastCall.branch \in {"evictUser", "evictGlobal"}

\* C2: the membership lists partition the allocated positions: every
\* position stands in exactly one user's list exactly once, no list holds
\* a position that is not allocated, and p is in u's list exactly when the
\* owner field of slot p is u.
C2_MembershipPartition ==
  /\ \A u \in DOMAIN userSlotIdx :
       \A k \in 1 .. Len(userSlotIdx[u]) : userSlotIdx[u][k] \in Positions(slots)
  /\ \A p \in Positions(slots) :
       /\ Cardinality({u \in DOMAIN userSlotIdx :
                         Occurrences(userSlotIdx[u], p) > 0}) = 1
       /\ \A u \in DOMAIN userSlotIdx :
            /\ Occurrences(userSlotIdx[u], p) <= 1
            /\ Occurrences(userSlotIdx[u], p) = 1 <=> slots[p + 1].UserID = u

\* C2 witness: a global eviction has just moved a slot from one user's list
\* to another's.
C2_Witness ==
  /\ lastCall.branch = "evictGlobal"
  /\ lastCall.prevOwner # slots[lruOrder[Len(lruOrder)] + 1].UserID

\* C3: with a clock that never goes backwards, the recency list is a
\* permutation of the allocated positions with non-decreasing timestamps
\* from head to tail, so its head has the least timestamp of all slots.
C3_RecencyOrder ==
  /\ Len(lruOrder) = Len(slots)
  /\ \A p \in Positions(slots) : Occurrences(lruOrder, p) = 1
  /\ \A i, j \in 1 .. Len(lruOrder) :
       i < j => slots[lruOrder[i] + 1].UpdatedAt <= slots[lruOrder[j] + 1].UpdatedAt
  /\ Len(lruOrder) > 0 =>
       \A p \in Positions(slots) :
         slots[lruOrder[1] + 1].UpdatedAt <= slots[p + 1].UpdatedAt

\* C3 witness: a touch has moved an older cell behind a younger one, and the
\* head is strictly older than the tail.
C3_Witness ==
  /\ lastCall.branch = "match"
  /\ Len(lruOrder) >= 2
  /\ lruOrder[Len(lruOrder)] < lruOrder[1]
  /\ slots[lruOrder[1] + 1].UpdatedAt < slots[lruOrder[Len(lruOrder)] + 1].UpdatedAt

\* C4: for a user below the per-user cap, a RecordTask whose fingerprint is
\* within the threshold of one of the user's slots changes no count, adds
\* no slot and changes no slot's owner.
C4_MatchKeepsCounts ==
  [][\A u \in {lastCall'.userID}, n \in {lastCall'.username}, d \in {lastCall'.data} :
       ( /\ ListedCount(userSlotIdx, u) < MaxUserSlots
         /\ HasMatch(u, simhash64(d))
         /\ RecordTask(u, n, d) )
       => /\ CountsUnchanged
          /\ \A p \in Positions(slots) : slots'[p + 1].UserID = slots[p + 1].UserID]_vars

\* C4 witness: the last call matched a slot of a user who is below the cap.
C4_Witness ==
  /\ lastCall.branch = "match"
  /\ ListedCount(userSlotIdx, slots[lruOrder[Len(lruOrder)] + 1].UserID) < MaxUserSlots

\* C5 as claimed: for a user below the per-user cap, a RecordTask with no
\* match adds exactly one slot to the user and exactly one to the total.
C5_Original ==
  [][\A u \in {lastCall'.userID}, n \in {lastCall'.username}, d \in {lastCall'.data} :
       ( /\ ListedCount(userSlotIdx, u) < MaxUserSlots
         /\ ~HasMatch(u, simhash64(d))
         /\ RecordTask(u, n, d) )
       => /\ Len(slots') = Len(slots) + 1
          /\ OwnedCount(slots', u) = OwnedCount(slots, u) + 1
          /\ ListedCount(userSlotIdx', u) = ListedCount(userSlotIdx, u) + 1]_vars

\* C5 amended: for a user below the per-user cap, while the store holds
\* fewer than MaxGlobalSlots slots, a RecordTask with no match adds exactly
\* one slot to the user and exactly one to the total.
C5_AllocBelowBothCaps ==
  [][\A u \in {lastCall'.userID}, n \in {lastCall'.username}, d \in {lastCall'.data} :
       ( /\ ListedCount(userSlotIdx, u) < MaxUserSlots
         /\ Len(slots) < MaxGlobalSlots
         /\ ~HasMatch(u, simhash64(d))
         /\ RecordTask(u, n, d) )
       => /\ Len(slots') = Len(slots) + 1
          /\ OwnedCount(slots', u) = OwnedCount(slots, u) + 1
          /\ ListedCount(userSlotIdx', u) = ListedCount(userSlotIdx, u) + 1
          /\ \A v \in Users \ {u} : OwnedCount(slots', v) = OwnedCount(slots, v)]_vars

\* C5 witness: the last call allocated a second slot for its user.
C5_Witness ==
  /\ lastCall.branch = "alloc"
  /\ OwnedCount(slots, slots[Len(slots)].UserID) >= 2

\* C6: when a user owns exactly MaxUserSlots slots and calls RecordTask with
\* no match, one of that user's own slots with the least timestamp among
\* that user's slots is reused (it holds the new fingerprint, name and
\* time), every other slot is left alone and no count changes.
C6_UserCapReusesOwnOldest ==
  [][\A u \in {lastCall'.userID}, n \in {lastCall'.username}, d \in {lastCall'.data} :
       ( /\ ListedCount(userSlotIdx, u) = MaxUserSlots
         /\ ~HasMatch(u, simhash64(d))
         /\ RecordTask(u, n, d) )
       => /\ CountsUnchanged
          /\ \E p \in Positions(slots) :
               /\ slots[p + 1].UserID = u
               /\ \A q \in Positions(slots) :
                    slots[q + 1].UserID = u
                      => slots[p + 1].UpdatedAt <= slots[q + 1].UpdatedAt
               /\ slots'[p + 1] = WrittenSlot(u, n, d)
               /\ \A q \in Positions(slots) \ {p} : slots'[q + 1] = slots[q + 1]]_vars

\* C6 witness: the last call reused a slot of a user at the cap whose slots
\* had different timestamps.
C6_Witness ==
  /\ lastCall.branch = "evictUser"
  /\ \E p, q \in Positions(slots) :
       /\ slots[p + 1].UserID = slots[q + 1].UserID
       /\ slots[p + 1].UserID = lastCall.prevOwner
       /\ slots[p + 1].UpdatedAt < slots[q + 1].UpdatedAt

\* C7: when the store is full and a user owning no slot calls RecordTask,
\* the head of the recency list is reassigned to that user: the former
\* owner loses exactly one slot, the caller owns one, the total stays, and
\* no other slot changes.
C7_GlobalCapReassignsHead ==
  [][\A u \in {lastCall'.userID}, n \in {lastCall'.username}, d \in {lastCall'.data} :
       ( /\ Len(slots) = MaxGlobalSlots
         /\ OwnedCount(slots, u) = 0
         /\ RecordTask(u, n, d) )
       => LET head == lruOrder[1]
              former == slots[head + 1].UserID
          IN /\ slots'[head + 1] = WrittenSlot(u, n, d)
             /\ \A q \in Positions(slots) \ {head} : slots'[q + 1] = slots[q + 1]
             /\ Len(slots') = MaxGlobalSlots
             /\ OwnedCount(slots', former) = OwnedCount(slots, former) - 1
             /\ ListedCount(userSlotIdx', former) = ListedCount(userSlotIdx, former) - 1
             /\ OwnedCount(slots', u) = 1
             /\ ListedCount(userSlotIdx', u) = 1
             /\ \A v \in Users \ {u, former} :
                  OwnedCount(slots', v) = OwnedCount(slots, v)]_vars

\* C7 witness: the last call was a global eviction for a user who now owns
\* exactly one slot, taken from another user.
C7_Witness ==
  /\ lastCall.branch = "evictGlobal"
  /\ Len(slots) = MaxGlobalSlots
  /\ lastCall.prevOwner # slots[lruOrder[Len(lruOrder)] + 1].UserID
  /\ OwnedCount(slots, slots[lruOrder[Len(lruOrder)] + 1].UserID) = 1


\* ------------------------------------------------------ scanner claims ----

\* The scanner is in the admin lookup or in the persistence write.
ScanInIO == pc[Scanner] \in {"isAdmin", "create"}

\* The number of records of the cycle written for user u.
RecordsFor(u) ==
  Cardinality({k \in 1 .. Len(dbLog) : dbLog[k].record.UserId = u})

\* C9: while the scanner runs IsAdmin or DB.Create it does not hold the
\* store lock, neither for reading nor for writing, and the lock is free, so
\* that a RecordTask can take it at once.
C9_NoLockDuringIO ==
  ScanInIO => (Scanner \notin mu.readers /\ mu.writer # Scanner /\ CanLock)

\* C9 witness: the scanner stands before a DB.Create of its second record
\* while a slot carries a time after the one the cycle took on leaving the
\* lock: a RecordTask ran during the cycle's lookups and writes.
C9_Witness ==
  /\ pc[Scanner] = "create"
  /\ Len(dbLog) = 1
  /\ \E p \in Positions(slots) : slots[p + 1].UpdatedAt > scan.now

StoreWhole ==
  /\ Len(lruOrder) = Len(slots)
  /\ \A k \in 1 .. Len(lruOrder) : lruOrder[k] \in Positions(slots)
  /\ \A u \in DOMAIN userSlotIdx :
       /\ Len(userSlotIdx[u]) = OwnedCount(slots, u)
       /\ Len(userSlotIdx[u]) > 0
  /\ \A p \in Positions(slots) :
       /\ Occurrences(lruOrder, p) = 1
       /\ Occurrences(UserSlots(Manager, slots[p + 1].UserID), p) = 1
  /\ \A i, j \in 1 .. Len(lruOrder) :
       i < j => slots[lruOrder[i] + 1].UpdatedAt <= slots[lruOrder[j] + 1].UpdatedAt

\* C8: a RecordTask holds the lock as the only holder from before its first
\* read until after its last write, and nobody else is inside RecordTask,
\* GetActiveTaskRank or GetStats meanwhile; whenever a reader holds the lock
\* the three structures agree; and when RecordTask releases the lock the
\* store is what the whole call, run in one piece on the store it found,
\* makes of it.
C8_RecordTaskExclusive ==
  /\ \A c \in Callers :
       pc[c] # "idle" =>
         /\ mu.writer = c
         /\ mu.readers = {}
         /\ \A p \in (Callers \cup Readers) \ {c} : pc[p] = "idle"
  /\ \A r \in Readers : pc[r] = "reading" => (r \in mu.readers /\ StoreWhole)
  /\ \A c \in Callers :
       pc[c] = "unlock" =>
         Manager = RecordTaskOutcome(call[c].pre, call[c].userID, call[c].username,
                                     call[c].now, call[c].newHash).m

\* C8 witness: a RecordTask stands in the middle of a global eviction, the
\* membership lists rewritten and the slot's fields not yet, so that the
\* structures disagree, while the second time has passed since it read the
\* clock.
C8_Witness ==
  /\ \E c \in Callers :
       /\ pc[c] = "write2"
       /\ call[c].branch = "evictGlobal"
       /\ call[c].now < clock
  /\ ~StoreWhole

\* ------------------------------------------------- failed writes ----

\* Some write of the cycle has failed.
SomeWriteFailed == \E k \in 1 .. Len(dbLog) : ~dbLog[k].ok

\* The step is a DB.Create that fails.
FailedCreate == ScanCreate /\ ~dbLog'[Len(dbLog')].ok

\* C11: a failed DB.Create changes nothing in the slot store and leaves the
\* scanner where a successful one would, at the next entry of the batch or,
\* after the last entry, back at the ticker; the user of a failed record
\* gets no second record in the cycle; and a cycle in which a write failed
\* still ends with one attempt for every qualifying user who is not an
\* administrator.
C11_FailedWriteIsolated ==
  /\ [][FailedCreate =>
          /\ storeVars' = storeVars
          /\ IF scan.i < Len(scan.highActiveUsers)
               THEN /\ pc'[Scanner] = "isAdmin"
                    /\ scan'.i = scan.i + 1
                    /\ scan'.highActiveUsers = scan.highActiveUsers
               ELSE pc'[Scanner] = "idle"]_vars
  /\ [](SomeWriteFailed =>
          /\ \A k \in 1 .. Len(dbLog) :
               ~dbLog[k].ok => RecordsFor(dbLog[k].record.UserId) = 1
          /\ pc[Scanner] = "idle" =>
               \A u \in scanQualified : ~IsAdmin(u) => RecordsFor(u) = 1)

\* C11 witness: a cycle with two qualifying users who are not administrators
\* has ended; the first write failed, the second was made and succeeded.
C11_Witness ==
  /\ pc[Scanner] = "idle"
  /\ Len(dbLog) = 2
  /\ ~dbLog[1].ok
  /\ dbLog[2].ok
  /\ dbLog[1].record.UserId # dbLog[2].record.UserId

\* -------------------------------------------------------- rank claims ----

\* A reader has the rank in hand and still holds the read lock: the store is
\* the one the rank was computed from.
RankInHand == \E r \in Readers : pc[r] = "return"

\* The number of slots whose owner field is u and whose timestamp is at
\* least cutoff.
CountedFrom(u, cutoff) ==
  Cardinality({p \in Positions(slots) :
                 slots[p + 1].UserID = u /\ slots[p + 1].UpdatedAt >= cutoff})

\* The rank gives user u the count n: one entry with that count when n is
\* positive, no entry when n is 0.
RankReports(rank, u, n) ==
  LET at == {k \in 1 .. Len(rank) : rank[k].UserID = u}
  IN IF n = 0 THEN at = {}
     ELSE Cardinality(at) = 1 /\ \A k \in at : rank[k].ActiveSlots = n

\* C12 as stated: for every window w the rank counts, per user, the slots
\* with timestamp >= now - w and omits the users without one.
C12_Original ==
  RankInHand =>
    \A u \in Users :
      RankReports(reply.rank, u, CountedFrom(u, reply.now - reply.windowSeconds))

\* C12: for every positive window w the rank counts, per user, the slots the
\* user owns with timestamp >= now - w, the boundary included, each slot
\* once, and omits the users without such a slot; for a window that is not
\* positive the same holds with the default window ActiveWindowSeconds in
\* place of w.
C12_RankCountsWindow ==
  RankInHand =>
    \A u \in Users :
      RankReports(reply.rank, u,
                  CountedFrom(u, reply.now - (IF reply.windowSeconds > 0
                                                THEN reply.windowSeconds
                                                ELSE ActiveWindowSeconds)))

\* C12 witness: user 1 has just touched a slot again, a matching call, and
\* the rank for window 1 at time 2 gives that user count 1 and nothing else,
\* while user 2 owns a slot last touched before the cutoff.
C12_Witness ==
  /\ RankInHand
  /\ reply.windowSeconds = 1
  /\ reply.now = 2
  /\ lastCall.branch = "match"
  /\ lastCall.userID = 1
  /\ Len(reply.rank) = 1
  /\ reply.rank[1].UserID = 1
  /\ reply.rank[1].ActiveSlots = 1
  /\ OwnedCount(slots, 1) = 1
  /\ OwnedCount(slots, 2) = 1

\* The counts of the list do not increase from head to tail.
NonIncreasing(rank) ==
  \A i, j \in 1 .. Len(rank) : i < j => rank[i].ActiveSlots >= rank[j].ActiveSlots

\* No two entries of the list are of the same user.
OneEntryPerUser(rank) ==
  \A i, j \in 1 .. Len(rank) : i # j => rank[i].UserID # rank[j].UserID

\* The lists of one entry per user, in every order of the users and with
\* every count up to one more than MaxUserSlots.
EntryLists ==
  {[k \in 1 .. Cardinality(Users) |->
      [UserID |-> o[k], Username |-> "n1", ActiveSlots |-> c[k]]] :
     o \in Orderings(Users),
     c \in [1 .. Cardinality(Users) -> 1 .. MaxUserSlots + 1]}

\* The sort puts every such list in non-increasing order and keeps its
\* entries.
SortSorts ==
  \A l \in EntryLists :
    LET out == SortFrom(l, 1, 2)
    IN /\ NonIncreasing(out)
       /\ Len(out) = Len(l)
       /\ {out[k] : k \in 1 .. Len(out)} = {l[k] : k \in 1 .. Len(l)}

\* C13: whatever the store and the window, the list GetActiveTaskRank
\* returns is in non-increasing order of count and has at most one entry
\* per user; and the sort of the code orders every list of entries.
C13_RankSorted ==
  /\ RankInHand => (NonIncreasing(reply.rank) /\ OneEntryPerUser(reply.rank))
  /\ SortSorts

\* C13 witness: the rank has a user with two active slots before a user
\* with one, and the first slot of the store is of the second.
C13_Witness ==
  /\ RankInHand
  /\ Len(reply.rank) = 2
  /\ reply.rank[1].ActiveSlots = 2
  /\ reply.rank[2].ActiveSlots = 1
  /\ slots[1].UserID = reply.rank[2].UserID

\* GetHighActiveUsers has its result in hand.
HighInHand == \E r \in Readers : pc[r] = "filtered"

\* The indices of the rank's entries with count at least t.
KeptIndices(rank, t) == {k \in 1 .. Len(rank) : rank[k].ActiveSlots >= t}

\* The i-th index, in increasing order, of the set of indices.
NthIndex(indices, i) ==
  CHOOSE k \in indices : Cardinality({j \in indices : j <= k}) = i

\* C14: the list GetHighActiveUsers(w, t) returns consists of exactly the
\* entries of the rank it obtained from GetActiveTaskRank(w) whose count is
\* at least t, each once, in the order they have in that rank.
C14_HighIsFilteredRank ==
  HighInHand =>
    LET kept == KeptIndices(reply.rank, reply.threshold)
    IN /\ Len(reply.result) = Cardinality(kept)
       /\ \A i \in 1 .. Len(reply.result) :
            reply.result[i] = reply.rank[NthIndex(kept, i)]

\* C14 witness: with threshold 2 a rank of a user with two active slots and
\* a user with one is cut to its first entry.
C14_Witness ==
  /\ HighInHand
  /\ reply.threshold = 2
  /\ Len(reply.rank) = 2
  /\ reply.rank[2].ActiveSlots = 1
  /\ Len(reply.result) = 1
  /\ reply.result[1] = reply.rank[1]

\* ----------------------------------------------------- fingerprint claims ----

\* The run so far is Scenario A: user 1 sent "hello world" and, two seconds
\* later, "hello world again", and nothing else was sent.
ScenarioA ==
  /\ Len(sent) = 2
  /\ sent[1].userID = 1 /\ sent[1].data = HelloWorld
  /\ sent[2].userID = 1 /\ sent[2].data = HelloWorldAgain
  /\ sent[2].now = sent[1].now + 2

\* C15: after Scenario A, whatever the salt, user 1 owns exactly one slot
\* and its timestamp is the time of the second call.
C15_ScenarioA ==
  ScenarioA =>
    /\ OwnedCount(slots, 1) = 1
    /\ \A p \in Positions(slots) :
         slots[p + 1].UserID = 1 => slots[p + 1].UpdatedAt = sent[2].now

\* The fingerprints of the payloads sent are pairwise farther apart than
\* the threshold.
PairwiseFar ==
  \A i, j \in 1 .. Len(sent) :
    i # j => hamming64(simhash64(sent[i].data), simhash64(sent[j].data)) > SimHashThreshold

\* The run so far is Scenario B: one user has sent MaxUserSlots + 1 payloads,
\* pairwise far apart, into an empty store.
ScenarioB ==
  /\ Len(sent) = BurstCount
  /\ \A k \in 1 .. Len(sent) : sent[k].userID = 1
  /\ PairwiseFar

\* The slot at position p is user 1's and holds the fingerprint and the
\* time of the k-th payload.
HoldsPayload(p, k) ==
  /\ slots[p + 1].UserID = 1
  /\ slots[p + 1].SimHash = simhash64(sent[k].data)
  /\ slots[p + 1].UpdatedAt = sent[k].now

\* C16: after Scenario B the user owns exactly MaxUserSlots slots, the slot
\* allocated for the first payload holds the fingerprint of the last
\* payload, and the slots of the payloads between are as their payloads
\* left them.
C16_ScenarioB ==
  ScenarioB =>
    /\ Len(slots) = MaxUserSlots
    /\ OwnedCount(slots, 1) = MaxUserSlots
    /\ HoldsPayload(0, BurstCount)
    /\ \A k \in 2 .. MaxUserSlots : HoldsPayload(k - 1, k)

\* C16 witness: Scenario B has been run, with time passing between the
\* first payload and the last.
C16_Witness ==
  /\ ScenarioB
  /\ sent[1].now < sent[BurstCount].now
  /\ lastCall.branch = "evictUser"

\* The texts of the runs whose words the salt of the run hashes.
HashedTexts ==
  {x \in Texts \cup HashTexts \cup BurstTexts :
     \A k \in 1 .. Len(Fields(x)) : Fields(x)[k] \in DOMAIN simhashTokenSalt}

\* The step is a RecordTask of the user and the text of the call before it,
\* under whatever display name.
RepeatsLastCall ==
  /\ lastCall.branch # "none"
  /\ \E n \in {lastCall'.username} :
       \/ RecordTask(lastCall.userID, n, lastCall.data)
       \/ SentRecordTask(lastCall.userID, n, lastCall.data)

\* C17: the salt, and with it the fingerprint of every text, stays what it
\* was at the start of the process; a text is at distance 0 from itself;
\* and a RecordTask that repeats the user and the text of the call directly
\* before it takes the match branch and leaves the total and every user's
\* count unchanged.
C17_RepeatMatches ==
  /\ [][simhashTokenSalt' = simhashTokenSalt]_vars
  /\ [](\A x \in HashedTexts : hamming64(simhash64(x), simhash64(x)) = 0)
  /\ [][RepeatsLastCall => (lastCall'.branch = "match" /\ CountsUnchanged)]_vars

\* C17 witness: user 1 has sent "hello world again" twice, a second later
\* the second time, and the second call matched.
C17_Witness ==
  /\ Len(sent) = 2
  /\ sent[1].userID = 1 /\ sent[2].userID = 1
  /\ sent[1].data = HelloWorldAgain /\ sent[2].data = HelloWorldAgain
  /\ sent[1].now < sent[2].now
  /\ lastCall.branch = "match"
  /\ Len(slots) = 1

\* ------------------------------------------------------- display names ----

\* The manager with every stored display name blanked.
NamesErased(m) ==
  [m EXCEPT !.slots = [k \in 1 .. Len(m.slots) |-> [m.slots[k] EXCEPT !.Username = ""]]]

\* C18: two runs of the same calls at the same times under different display
\* names agree, after every call, in everything but the stored names: slot
\* owners, fingerprints, timestamps, membership lists and recency order.
C18_NamesDoNotMatter == NamesErased(Manager) = NamesErased(twin)

\* C18 witness: the two runs have filled the store and gone through a global
\* eviction, and every slot carries another name in the second run than in
\* the first.
C18_Witness ==
  /\ Len(slots) = MaxGlobalSlots
  /\ lastCall.branch = "evictGlobal"
  /\ \A k \in 1 .. Len(slots) : slots[k].Username # twin.slots[k].Username

\* ---------------------------------------------------------------------------
\* The ingestion adapter.

\* The call in hand came through RecordActiveTaskSlot and had a user id that
\* is not positive or a path that is not a chat or completion path.
Suppressed(c) ==
  /\ c.branch # "none"
  /\ c.userID <= 0 \/ ~IsChatRequest(c.requestPath)

\* C19: a RecordActiveTaskSlot call with a user id <= 0 or with a request path
\* outside the chat and completion patterns leaves the slot store as it was,
\* and when every write comes through the adapter no slot has an owner <= 0.
C19_AdapterSuppresses ==
  /\ [][Suppressed(lastCall') => UNCHANGED storeVars]_vars
  /\ [](\A i \in 1 .. Len(slots) : slots[i].UserID > 0)

\* A suppressed call arrived at a store that holds slots.
C19_Witness ==
  /\ lastCall.branch = "skipped"
  /\ Suppressed(lastCall)
  /\ lastCall.isGin
  /\ Len(slots) > 0

\* ---------------------------------------------------------------------------
\* Termination and the lock.

\* The goroutines that call RecordTask, GetActiveTaskRank and GetStats.
WaitProcs == Callers \cup WaitReaders

\* p holds m.mu: as the writer once the readers have left, or as a reader.
HoldsLock(p) == (mu.writer = p /\ pc[p] # "drain") \/ p \in mu.readers

\* A RecordTask call past its reads has chosen one of the four branches and
\* a position of the store; a reader that holds the lock gets a rank and the
\* statistics of the store.
CallsSucceed ==
  /\ \A c \in Callers :
       pc[c] \in {"write1", "write2", "write3", "unlock"} =>
         /\ call[c].branch \in {"match", "evictUser", "evictGlobal", "alloc"}
         /\ call[c].idx \in 0 .. MaxGlobalSlots - 1
         /\ call[c].idx <= Len(slots)
  /\ \A r \in WaitReaders :
       pc[r] = "reading" =>
         /\ \A w \in RankWindows : GetActiveTaskRank(Manager, clock, w) # {}
         /\ GetStats(Manager, clock).active_slots \in 0 .. Len(slots)
         /\ GetStats(Manager, clock).active_users \in 0 .. Len(slots)

\* Outside a call and while it asks for the lock a goroutine does not hold
\* it, and a writer holds it alone.
LockDiscipline ==
  /\ \A p \in WaitProcs :
       pc[p] \in {"idle", "lock", "rlock"} => ~HoldsLock(p) /\ mu.writer # p
  /\ \A c \in Callers : HoldsLock(c) => mu.readers = {}

\* C20: every RecordTask, GetActiveTaskRank and GetStats call, whatever the
\* user id and the text and however the calls interleave, chooses a branch
\* or yields a result, never asks for the lock while it holds it, and with a
\* fair lock returns with the lock released.
C20_CallsComplete ==
  /\ [](CallsSucceed /\ LockDiscipline)
  /\ \A p \in WaitProcs : (pc[p] # "idle") ~> (pc[p] = "idle" /\ ~HoldsLock(p))

\* A writer with a user id <= 0 and the empty text waits for a reader to
\* leave while the other writer and the other reader wait behind it.
C20_Witness ==
  /\ \E c \in Callers :
       /\ pc[c] = "drain"
       /\ call[c].userID <= 0
       /\ call[c].data = <<>>
  /\ \E c \in Callers : pc[c] = "lock"
  /\ \E r \in WaitReaders : pc[r] = "reading"
  /\ \E r \in WaitReaders : pc[r] = "rlock"

\* ---------------------------------------------------------------------------
\* The daily check-in.

\* The date of the row that the insert of p is about.
InsertDate(p) == IF req[p].kind = "Checkin" THEN today ELSE req[p].date

\* p takes the step of its insert, against a row of the same user and date.
LosesRace(p) ==
  /\ req[p].pc \in {"create", "txCreate"}
  /\ req'[p].pc # req[p].pc
  /\ RowsOf(req[p].userId, InsertDate(p)) # {}

\* C21: however the check-in requests of a user interleave, the table holds
\* at most one row of the user for a day and the quota is increased at most
\* once for it; a request whose insert meets the row of another request
\* returns a failure and leaves the table and the quota alone.
C21_OneCheckinPerDay ==
  /\ [](\A u \in CheckinUsers, d \in Days :
          Cardinality(RowsOf(u, d)) <= 1 /\ awards[<<u, d>>] <= 1)
  /\ [][\A p \in CheckinProcs :
          LosesRace(p) => /\ req'[p].pc = "return"
                          /\ ~req'[p].ok
                          /\ req'[p].gained = 0
                          /\ UNCHANGED <<checkins, userQuota, awards>>]_vars

\* Two requests of one user have passed the check of the day; the first has
\* inserted its row and got its quota, the second stands before its insert.
C21_Witness ==
  \E p, q \in CheckinProcs :
    /\ p # q
    /\ req[p].pc = "return" /\ req[p].ok
    /\ req[q].pc \in {"create", "txCreate"}
    /\ req[q].userId = req[p].userId
    /\ InsertDate(q) = req[p].date
    /\ awards[<<req[p].userId, req[p].date>>] = 1

\* p returns from UserCheckin with an error.
ReturnsError(p) ==
  /\ req[p].kind = "UserCheckin"
  /\ req[p].pc \notin {"idle", "return"}
  /\ req'[p].pc = "return"
  /\ ~req'[p].ok

\* p returns from UserCheckin with its row.
ReturnsCheckin(p) ==
  /\ req[p].kind = "UserCheckin"
  /\ req[p].pc \notin {"idle", "return"}
  /\ req'[p].pc = "return"
  /\ req'[p].ok

\* C22: UserCheckin is all or nothing with and without transactions: when it
\* returns an error the row it inserted is not in the table and the call has
\* not changed the quota; when it returns a row, the row is in the table and
\* the quota has grown by the amount of the row.
C22_AllOrNothing ==
  [][\A p \in CheckinProcs :
       /\ ReturnsError(p) =>
            /\ req[p].created => Row(req[p]) \notin checkins'
            /\ req[p].gained = 0
            /\ userQuota' = userQuota
       /\ ReturnsCheckin(p) =>
            /\ Row(req'[p]) \in checkins'
            /\ userQuota'[req[p].userId] = userQuota[req[p].userId] + req[p].quota]_vars

\* ---------------------------------------------------------------------------
\* The order of the match.

\* The positions of u's membership list, in list order, whose slot is within
\* the threshold of fp.
Qualifying(u, fp) ==
  SelectSeq(UserSlots(Manager, u),
            LAMBDA p : hamming64(slots[p + 1].SimHash, fp) <= SimHashThreshold)

\* C23: when several slots of the calling user are within the threshold of
\* the new fingerprint, RecordTask writes the first of them in the order of
\* the user's membership list, whether or not it is the closest, and leaves
\* every other slot as it was.
C23_FirstMatchWins ==
  [][\A u \in {lastCall'.userID}, n \in {lastCall'.username}, d \in {lastCall'.data} :
       ( /\ Len(Qualifying(u, simhash64(d))) >= 2
         /\ RecordTask(u, n, d) )
       => LET first == Qualifying(u, simhash64(d))[1]
          IN /\ slots'[first + 1] = WrittenSlot(u, n, d)
             /\ Len(slots') = Len(slots)
             /\ \A q \in Positions(slots) \ {first} : slots'[q + 1] = slots[q + 1]]_vars

\* The last call matched a slot that stands before another slot of the same
\* user in the membership list, and that other slot already held exactly the
\* fingerprint of the call: the closest slot was not the first.
C23_Witness ==
  /\ lastCall.branch = "match"
  /\ \E i, j \in 1 .. Len(UserSlots(Manager, lastCall.userID)) :
       /\ i < j
       /\ UserSlots(Manager, lastCall.userID)[i] = lruOrder[Len(lruOrder)]
       /\ slots[UserSlots(Manager, lastCall.userID)[j] + 1].SimHash
            = simhash64(lastCall.data)
       /\ slots[UserSlots(Manager, lastCall.userID)[j] + 1].UpdatedAt < clock

\* ---------------------------------------------------------------------------
\* The per-user cap before the global cap.

\* The step leaves the slots and the membership lists of all users but u as
\* they were.
OthersUntouched(u) ==
  /\ \A p \in Positions(slots) :
       slots[p + 1].UserID # u => slots'[p + 1] = slots[p + 1]
  /\ \A v \in Users \ {u} :
       UserSlots([userSlotIdx |-> userSlotIdx'], v) = UserSlots(Manager, v)

\* C24: a RecordTask of a user who owns MaxUserSlots slots and has no match
\* changes no slot and no membership list of any other user, also in a full
\* store; and a call that matches writes a slot of the caller and nothing
\* of any other user.
C24_UserCapBeforeGlobalCap ==
  [][\A u \in {lastCall'.userID}, n \in {lastCall'.username}, d \in {lastCall'.data} :
       /\ ( /\ OwnedCount(slots, u) = MaxUserSlots
            /\ ~HasMatch(u, simhash64(d))
            /\ RecordTask(u, n, d) )
          => /\ OthersUntouched(u)
             /\ Len(slots') = Len(slots)
             /\ \A v \in Users : OwnedCount(slots', v) = OwnedCount(slots, v)
       /\ ( /\ HasMatch(u, simhash64(d))
            /\ RecordTask(u, n, d) )
          => /\ OthersUntouched(u)
             /\ \E p \in Positions(slots) :
                  /\ slots[p + 1].UserID = u
                  /\ slots'[p + 1] = WrittenSlot(u, n, d)]_vars

\* In a full store whose least recently used slot belongs to another user,
\* the last call reused a slot of its own user.
C24_Witness ==
  /\ lastCall.branch = "evictUser"
  /\ Len(slots) = MaxGlobalSlots
  /\ slots[lruOrder[1] + 1].UserID # lastCall.userID
  /\ slots[lruOrder[Len(lruOrder)] + 1].UserID = lastCall.userID

\* ---------------------------------------------------------------------------
\* The slot reused at the per-user cap.

\* The slots of u in the order of the recency list, least recently used
\* first.
RecencyOf(u) == SelectSeq(lruOrder, LAMBDA p : slots[p + 1].UserID = u)

\* The slots of u with the least timestamp among the slots of u, in the
\* order of u's membership list.
OldestListed(u) ==
  SelectSeq(UserSlots(Manager, u),
            LAMBDA p : \A q \in Positions(slots) :
                         slots[q + 1].UserID = u
                           => slots[p + 1].UpdatedAt <= slots[q + 1].UpdatedAt)

\* The step is a no-match call of (u, n, d) at the per-user cap.
ReusesOwn(u, n, d) ==
  /\ OwnedCount(slots, u) = MaxUserSlots
  /\ ~HasMatch(u, simhash64(d))
  /\ RecordTask(u, n, d)

\* C25 as claimed: at the per-user cap with no match the slot reused is the
\* one of the user's slots that stands earliest in the recency list, also
\* among slots with equal timestamps.
C25_Original ==
  [][\A u \in {lastCall'.userID}, n \in {lastCall'.username}, d \in {lastCall'.data} :
       ReusesOwn(u, n, d)
       => /\ slots'[RecencyOf(u)[1] + 1] = WrittenSlot(u, n, d)
          /\ lruOrder'[Len(lruOrder')] = RecencyOf(u)[1]]_vars

\* C25 amended: at the per-user cap with no match the slot reused is the
\* first slot of the user's membership list among those with the user's
\* least timestamp; it is the user's earliest slot in the recency list when
\* no other slot of the user carries that timestamp.
C25_ReusesOldestByTimestamp ==
  [][\A u \in {lastCall'.userID}, n \in {lastCall'.username}, d \in {lastCall'.data} :
       ReusesOwn(u, n, d)
       => /\ lruOrder'[Len(lruOrder')] = OldestListed(u)[1]
          /\ slots'[OldestListed(u)[1] + 1] = WrittenSlot(u, n, d)
          /\ Len(OldestListed(u)) = 1 => OldestListed(u)[1] = RecencyOf(u)[1]]_vars

\* The last call reused a slot of its user at a time when all slots carried
\* the same timestamp, and the user owns another slot that stands later in
\* the membership list.
C25_Witness ==
  /\ lastCall.branch = "evictUser"
  /\ \A p \in Positions(slots) : slots[p + 1].UpdatedAt = clock
  /\ \E i, j \in 1 .. Len(UserSlots(Manager, lastCall.userID)) :
       /\ i < j
       /\ UserSlots(Manager, lastCall.userID)[i] = lruOrder[Len(lruOrder)]

\* ---------------------------------------------------------------------------
\* The keys of the membership index.

\* The owner ids that stand in some slot.
Owners == {slots[p + 1].UserID : p \in Positions(slots)}

\* C26: the membership index has no key with an empty list; a user whose
\* last slot went to another user has no key any more, so the keys of the
\* index are exactly the owner ids of the slots and as many.
C26_NoEmptyMembership ==
  /\ \A u \in DOMAIN userSlotIdx : Len(userSlotIdx[u]) > 0
  /\ DOMAIN userSlotIdx = Owners
  /\ Cardinality(DOMAIN userSlotIdx) = Cardinality(Owners)

\* The last call took the last slot of another user, who has left the index.
C26_Witness ==
  /\ lastCall.branch = "evictGlobal"
  /\ lastCall.prevOwner # lastCall.userID
  /\ lastCall.prevOwner \notin DOMAIN userSlotIdx
  /\ lastCall.prevOwner \notin Owners

\* ---------------------------------------------------------------------------
\* Cells are never given back.

\* C27: along every execution the number of slots never decreases and every
\* allocated position stays allocated; a step appends at most one cell, and
\* only for a call without a match of a user below MaxUserSlots in a store
\* below MaxGlobalSlots; a store that holds MaxGlobalSlots slots holds
\* exactly that many ever after.
C27_CellsNeverFreed ==
  [][\A u \in {lastCall'.userID}, d \in {lastCall'.data} :
       /\ Len(slots') >= Len(slots)
       /\ Positions(slots) \subseteq Positions(slots')
       /\ Len(slots') # Len(slots)
            => /\ Len(slots') = Len(slots) + 1
               /\ ~HasMatch(u, simhash64(d))
               /\ OwnedCount(slots, u) < MaxUserSlots
               /\ Len(slots) < MaxGlobalSlots
               /\ SubSeq(slots', 1, Len(slots)) = slots
       /\ Len(slots) = MaxGlobalSlots => Len(slots') = MaxGlobalSlots]_vars

\* In a full store the last call reused the least recently used slot, which
\* was a slot of the caller, who is below the per-user cap.
C27_Witness ==
  /\ Len(slots) = MaxGlobalSlots
  /\ lastCall.branch = "evictGlobal"
  /\ lastCall.prevOwner = lastCall.userID
  /\ OwnedCount(slots, lastCall.userID) < MaxUserSlots

\* ---------------------------------------------------------------------------
\* Fingerprints are replaced.

\* The fingerprint of the i-th call of the run.
SentHash(i) == simhash64(sent[i].data)

\* Each of the calls 2 .. n is within the threshold of the call before it.
IsChain(n) ==
  \A i \in 2 .. n : hamming64(SentHash(i - 1), SentHash(i)) <= SimHashThreshold

\* C28: a match puts the new fingerprint in the place of the old one. After
\* a run of calls of one user in which each text is within the threshold of
\* the text before it, the user has one slot and it holds the fingerprint
\* of the last text, however far that is from the first; and a text that
\* follows such a run and is farther than the threshold from the last text
\* gets a slot of its own, also when it is within the threshold of the
\* first text.
C28_FingerprintReplaced ==
  /\ lastCall.branch = "match"
       => slots[lruOrder[Len(lruOrder)] + 1].SimHash = simhash64(lastCall.data)
  /\ (Len(sent) >= 1 /\ IsChain(Len(sent)))
       => /\ Len(slots) = 1
          /\ slots[1].SimHash = SentHash(Len(sent))
  /\ ( /\ Len(sent) >= 2
       /\ IsChain(Len(sent) - 1)
       /\ hamming64(SentHash(Len(sent) - 1), SentHash(Len(sent))) > SimHashThreshold )
       => /\ Len(slots) = 2
          /\ slots[1].SimHash = SentHash(Len(sent) - 1)
          /\ slots[2].SimHash = SentHash(Len(sent))
          /\ lastCall.branch = "alloc"

\* Three calls have moved the slot farther than the threshold from its first
\* fingerprint, and a fourth text within the threshold of the first one has
\* not matched.
C28_Witness ==
  /\ Len(sent) = 4
  /\ IsChain(3)
  /\ hamming64(SentHash(1), SentHash(3)) > SimHashThreshold
  /\ hamming64(SentHash(4), SentHash(1)) <= SimHashThreshold
  /\ hamming64(SentHash(4), SentHash(3)) > SimHashThreshold
  /\ lastCall.branch = "alloc"
  /\ Len(slots) = 2

\* ---------------------------------------------------------------------------
\* Texts without tokens.

\* The slots of u, in the order of u's membership list, whose fingerprint
\* has at most SimHashThreshold bits set.
FewBits(u) ==
  SelectSeq(UserSlots(Manager, u),
            LAMBDA p : hamming64(slots[p + 1].SimHash, 0) <= SimHashThreshold)

\* C29: a text without tokens, empty or of whitespace only, has the
\* fingerprint 0; a RecordTask with such a text writes the first slot of
\* the caller whose fingerprint has at most SimHashThreshold bits set, and
\* when the caller has no such slot it allocates or reuses a slot, which
\* then holds the fingerprint 0.
C29_BlankText ==
  /\ [](\A x \in BlankTexts : Fields(x) = <<>> /\ simhash64(x) = 0)
  /\ [][\A u \in {lastCall'.userID}, n \in {lastCall'.username}, d \in {lastCall'.data} :
          (d \in BlankTexts /\ RecordTask(u, n, d))
          => /\ WrittenSlot(u, n, d).SimHash = 0
             /\ slots'[lruOrder'[Len(lruOrder')] + 1] = WrittenSlot(u, n, d)
             /\ IF FewBits(u) # <<>>
                  THEN /\ lastCall'.branch = "match"
                       /\ lruOrder'[Len(lruOrder')] = FewBits(u)[1]
                       /\ \A q \in Positions(slots) \ {FewBits(u)[1]} :
                            slots'[q + 1] = slots[q + 1]
                  ELSE lastCall'.branch \in {"alloc", "evictUser", "evictGlobal"}]_vars

\* A text of two spaces found all slots of its user with more bits than the
\* threshold and has taken one of them over with the fingerprint 0.
C29_Witness ==
  /\ lastCall.branch = "evictUser"
  /\ lastCall.data = <<" ", " ">>
  /\ slots[lruOrder[Len(lruOrder)] + 1].SimHash = 0
  /\ \E p \in Positions(slots) :
       /\ slots[p + 1].UserID = lastCall.userID
       /\ hamming64(slots[p + 1].SimHash, 0) > SimHashThreshold

\* ---------------------------------------------------------------------------
\* The bits of a fingerprint.

\* The number of tokens of x, counted with repetition, whose hash has bit i
\* equal to b.
TokensWithBit(x, i, b) ==
  Cardinality({k \in 1 .. Len(Fields(x)) : Bit(tokenHash64(Fields(x)[k]), i) = b})

\* How often the word w is a token of x.
TokenCount(x, w) == Cardinality({k \in 1 .. Len(Fields(x)) : Fields(x)[k] = w})

\* x and y have the same tokens, each as often.
SameTokens(x, y) == \A w \in Tokens : TokenCount(x, w) = TokenCount(y, w)

\* C30: for a text with at least one token, bit i of the fingerprint is 1
\* exactly when at least as many tokens, counted with repetition, have bit i
\* set in their hash as have it clear, so that a tie gives 1; two texts with
\* the same tokens as often have the same fingerprint, whatever the order
\* of the tokens and the whitespace between them; the fingerprint of a text
\* of one token is the hash of the token; and the slot a call writes holds
\* that fingerprint.
C30_MajorityBits ==
  /\ \A x \in TokenTexts :
       /\ Len(Fields(x)) >= 1
       /\ \A i \in 0 .. HashBits - 1 :
            Bit(simhash64(x), i) = 1
              <=> TokensWithBit(x, i, 1) >= TokensWithBit(x, i, 0)
       /\ Len(Fields(x)) = 1 => simhash64(x) = tokenHash64(Fields(x)[1])
       /\ \A y \in TokenTexts : SameTokens(x, y) => simhash64(x) = simhash64(y)
  /\ lastCall.branch # "none" =>
       \A i \in 0 .. HashBits - 1 :
         Bit(slots[lruOrder[Len(lruOrder)] + 1].SimHash, i) = 1
           <=> TokensWithBit(lastCall.data, i, 1) >= TokensWithBit(lastCall.data, i, 0)

\* The last call sent "b a" under a salt that gives the two words different
\* hashes: the bits in which they differ are ties and are set in the slot.
C30_Witness ==
  /\ lastCall.branch # "none"
  /\ lastCall.data = <<"b", " ", "a">>
  /\ \E i, j \in 0 .. HashBits - 1 :
       /\ TokensWithBit(lastCall.data, i, 1) = TokensWithBit(lastCall.data, i, 0)
       /\ Bit(slots[lruOrder[Len(lruOrder)] + 1].SimHash, i) = 1
       /\ TokensWithBit(lastCall.data, j, 1) = 0
       /\ Bit(slots[lruOrder[Len(lruOrder)] + 1].SimHash, j) = 0

\* ---------------------------------------------------------------------------
\* The counts of GetStats against the rank.

RECURSIVE RankTotal(_)
\* The sum of the ActiveSlots counts of a rank.
RankTotal(rank) ==
  IF rank = <<>> THEN 0 ELSE Head(rank).ActiveSlots + RankTotal(Tail(rank))

\* The ranks GetActiveTaskRank(30) can return on the present store and time.
DefaultRanks == GetActiveTaskRank(Manager, clock, ActiveWindowSeconds)

\* active_slots of GetStats is the sum of the counts of the default rank.
StatsSlotsAreRankTotal ==
  \A rank \in DefaultRanks :
    GetStats(Manager, clock).active_slots = RankTotal(rank)

\* active_users of GetStats is the number of users that own a slot, touched
\* within the window or not.
StatsUsersAreOwners ==
  GetStats(Manager, clock).active_users
    = Cardinality({slots[p + 1].UserID : p \in Positions(slots)})

\* C31: on every store state and time, active_users of GetStats is the
\* length of the list GetActiveTaskRank returns for the default window, that
\* is the number of users with a slot touched within the window, and
\* active_slots is the sum of the counts of that list.
C31_StatsMatchRank ==
  \A rank \in DefaultRanks :
    /\ GetStats(Manager, clock).active_users = Len(rank)
    /\ GetStats(Manager, clock).active_slots = RankTotal(rank)

\* ---------------------------------------------------------------------------
\* The handler Checkin: the record and the reward.

\* The handler of p leaves IncreaseUserQuota with an error.
QuotaIncreaseFails(p) ==
  /\ req[p].kind = "Checkin"
  /\ req[p].pc = "increase"
  /\ req'[p].pc = "return"
  /\ ~req'[p].ok

\* C33: in the handler Checkin a check-in record of a user and day exists
\* only if the quota of the user was increased for it: when
\* IncreaseUserQuota fails after CreateCheckinRecord made the record, the
\* handler does not leave the record in the table without the reward.
C33_RecordOnlyWithReward ==
  [][\A p \in CheckinProcs :
       QuotaIncreaseFails(p) =>
         \/ Row(req[p]) \notin checkins'
         \/ awards'[<<req[p].userId, req[p].date>>] > 0]_vars

\* ---------------------------------------------------------------------------
\* The cycles of the scanner.

\* scanAndSaveHighActiveUsers is in progress.
CycleRunning == pc[Scanner] # "idle"

\* C32: with StartHighActiveTaskScanner called once, a scan cycle begins
\* only when no cycle is in progress, so that no two executions of
\* scanAndSaveHighActiveUsers overlap; a tick that fires while a cycle runs
\* leaves the cycle alone and begins no other; and no cycle begins before
\* one full interval has passed since the call.
C32_CyclesNeverOverlap ==
  /\ [][cycles' > cycles =>
          /\ ~CycleRunning
          /\ cycles' = cycles + 1
          /\ clock >= ticker.at + HighActiveTaskScanInterval]_vars
  /\ [][(ticker'.next # ticker.next /\ CycleRunning) =>
          UNCHANGED <<pc, scan, cycles>>]_vars
  /\ [](CycleRunning => cycles >= 1)
  /\ [](cycles >= 1 => clock >= ticker.at + HighActiveTaskScanInterval)

\* The first cycle is still running when the second tick has fired: the
\* tick waits in the channel and no second cycle has begun.
C32_Witness ==
  /\ CycleRunning
  /\ cycles = 1
  /\ ticker.C = 1
  /\ ticker.next > ticker.at + 2 * HighActiveTaskScanInterval

\* ---------------------------------------------------------------------------
\* The events of the hourly writer and the batches handed to the database.

\* The count of the field in the aggregate of key k in a buffer, 0 if the
\* buffer has no such key.
Buffered(buffer, k, field) ==
  IF k \in DOMAIN buffer THEN buffer[k][field] ELSE 0

\* The count of the field in the row of key k in a batch, 0 if the batch has
\* no such row.
InBatch(batch, k, field) ==
  SumOf([r \in batch |-> r[field]],
        {r \in batch : <<r.HourStartTs, r.UserId>> = k})

\* What the buffer, the buffers taken by the flushes in progress and the
\* batches handed to the database hold for key k, each batch counted as
\* often as it was handed over.
HourlyHeld(k, field) ==
  Buffered(hourlyBuffer, k, field)
    + SumOf([f \in HourlyFlushers |-> Buffered(hourlyFlush[f].oldBuffer, k, field)],
            HourlyFlushers)
    + SumOf([i \in 1 .. Len(hourlyDB) |-> InBatch(hourlyDB[i], k, field)],
            1 .. Len(hourlyDB))

\* The calls with an event of the set E and key k whose event is counted:
\* those made, less the ones that have not added their event yet.
HourlyCounted(E, k) ==
  SumOf(hourlyLog, {e \in E : HourlyKey(e) = k})
    - Cardinality({p \in HourlyCallers :
                     /\ hourlyCall[p].pc \in {"lock", "add"}
                     /\ hourlyCall[p].event \in E
                     /\ hourlyCall[p].key = k})

\* The events the writer takes in: a positive user id and an hour start
\* other than 0.
TakenIn == {e \in HourlyEvents : e.UserId > 0 /\ AlignHourStartTs(e.CreatedAt) # 0}

\* The events with a positive user id and a positive CreatedAt.
PositiveEvents == {e \in HourlyEvents : e.UserId > 0 /\ e.CreatedAt > 0}

\* Every aggregate, wherever it is, has no more successes than calls.
SuccessWithinTotal ==
  /\ \A k \in DOMAIN hourlyBuffer :
       hourlyBuffer[k].SuccessCalls <= hourlyBuffer[k].TotalCalls
  /\ \A f \in HourlyFlushers : \A k \in DOMAIN hourlyFlush[f].oldBuffer :
       hourlyFlush[f].oldBuffer[k].SuccessCalls <= hourlyFlush[f].oldBuffer[k].TotalCalls
  /\ \A i \in 1 .. Len(hourlyDB) : \A r \in hourlyDB[i] :
       r.SuccessCalls <= r.TotalCalls

\* The goroutine that hands its batches to the database does not hold the
\* mutex.
UpsertOutsideMutex ==
  \A f \in HourlyFlushers : hourlyFlush[f].pc = "upsert" => hourlyMu # f

\* Every event the writer takes in is counted once, as a call and, if it
\* is no error, as a success: in the buffer until a flush takes it, then in
\* the buffer taken, then in one batch handed to the database.
TakenInCountedOnce ==
  /\ \A k \in HourlyKeys :
       /\ HourlyHeld(k, "TotalCalls") = HourlyCounted(TakenIn, k)
       /\ HourlyHeld(k, "SuccessCalls")
            = HourlyCounted({e \in TakenIn : ~e.IsError}, k)
  /\ SuccessWithinTotal
  /\ UpsertOutsideMutex

\* C34: however the calls of RecordUserCallHourlyEventAsync and the flushes
\* of the ticker and of a full buffer interleave, every event with a
\* positive user id and a positive CreatedAt is counted exactly once, in the
\* buffer or in a buffer taken by a flush or in one batch handed to the
\* database; no aggregate has more successes than calls; and the database
\* write runs with the mutex released.
C34_EveryEventCountedOnce ==
  /\ \A k \in HourlyKeys :
       HourlyHeld(k, "TotalCalls") = HourlyCounted(PositiveEvents, k)
  /\ SuccessWithinTotal
  /\ UpsertOutsideMutex

====
